---- MODULE Spec2Model ----
(***************************************************************************)
(* The conversation index of claude-agent-mobile (src/unnamed/part_000,    *)
(* lines 1-458): the scan that rebuilds conversationCache, the refresh     *)
(* promise that collapses concurrent refreshes, the debounce timer, the    *)
(* fs watchers and the listener set.                                       *)
(*                                                                         *)
(* Strings are sequences of one-character strings, so that trim, slice,    *)
(* endsWith, replace and template concatenation are computed.  Paths are   *)
(* sequences of segments.                                                  *)
(*                                                                         *)
(* Scheduling.  Node runs one task at a time.  A timer callback, a watcher *)
(* callback, the completion of an fs call and an incoming request are      *)
(* tasks; promise reactions (the .finally of the scan, the continuations   *)
(* of the callers awaiting it) are microtasks and all run before the next  *)
(* task.  Every action below is one task, or one microtask; the tasks are  *)
(* guarded by Quiet (no microtask is queued).                              *)
(***************************************************************************)
EXTENDS Integers, Sequences, FiniteSets, TLC

VARIABLES
    fs,                 \* the projects directory on disk
    fsVer,              \* number of changes made to fs so far
    conversationCache,  \* part_000:53, an insertion-ordered Map
    projectWatchers,    \* part_000:54, the directories with an open watcher
    conversationListeners, \* part_000:55, an insertion-ordered Set
    projectsWatcher,    \* part_000:56, TRUE iff not null
    refreshPromise,     \* part_000:57, TRUE iff not null
    refreshTimer,       \* part_000:58, TRUE iff not null
    lastSnapshotKey,    \* part_000:59
    watchersEnabled,    \* part_000:60
    pendingTimers,      \* number of setTimeout callbacks not yet run nor cleared
    scan,               \* the locals of the running async scan (part_000:260-327)
    running,            \* number of scan bodies currently executing
    scanStarts,         \* number of directory walks started so far
    waiters,            \* the callers awaiting refreshPromise, in call order
    result,             \* the value the settled scan resolved with, while reactions run
    subscriptions,      \* per listener, the unsubscribe closures not yet called
    subscribeCalls,     \* number of watchConversations calls so far
    requests,           \* number of listConversations / loadConversation calls so far
    events,             \* number of watcher callbacks so far
    burst,              \* watcher callbacks absorbed by the timers now pending
    firedBurst,         \* the value of burst when a timer last fired
    notified,           \* the listener invocations made by the last step
    got,                \* per listener, the scan whose snapshot it was last handed
    owed,               \* listeners registered at a changed commit, not handed it yet
    lastRun,            \* what listConversations last returned, and what its scan saw
    prevRun,            \* the same for the listConversations call before it
    load,               \* the loadConversation call in progress, or the last one's outcome
    faults,             \* the I/O calls of the scans that have failed so far
    browse,             \* the machine's directory tree and the listDirectories call
    reading,            \* the readSessionMetadata call on a file of its own
    clock               \* the time, and when the pending debounce timer is due

vars == << fs, fsVer, conversationCache, projectWatchers, conversationListeners,
           projectsWatcher, refreshPromise, refreshTimer, lastSnapshotKey,
           watchersEnabled, pendingTimers, scan, running, scanStarts, waiters,
           result, subscriptions, subscribeCalls, requests, events, burst,
           firedBurst, notified, got, owed, lastRun, prevRun, load, faults, browse,
           reading, clock >>

\* the variables of the conversation index
indexVars == << fs, fsVer, conversationCache, projectWatchers, conversationListeners,
                projectsWatcher, refreshPromise, refreshTimer, lastSnapshotKey,
                watchersEnabled, pendingTimers, scan, running, scanStarts, waiters,
                result, subscriptions, subscribeCalls, requests, events, burst,
                firedBurst, notified, got, owed, lastRun, prevRun, load, faults,
                reading, clock >>

-----------------------------------------------------------------------------
(* Bounds of the model *)

MaxScans == 2
MaxFsOps == 1
MaxEvents == 2
MaxSubscribes == 2
MaxRequests == 1
MaxWalks == 3
MaxWrites == 2
MaxTreeOps == 2
MaxLoads == 2
MaxLoadWrites == 1
MaxFaults == 2
MaxTailLines == 2
MaxRecords == 3
MaxReaders == 3
MaxBurst == 3
MaxTime == 400
MaxLiveFaults == 1
MaxLiveEvents == 1

-----------------------------------------------------------------------------
(* Strings *)

IsSpace(c) == c \in {" ", "\t", "\n", "\r"}

RECURSIVE TrimStart(_)
TrimStart(s) ==
    IF s # << >> /\ IsSpace(Head(s)) THEN TrimStart(Tail(s)) ELSE s

RECURSIVE TrimEnd(_)
TrimEnd(s) ==
    IF s # << >> /\ IsSpace(s[Len(s)]) THEN TrimEnd(SubSeq(s, 1, Len(s) - 1)) ELSE s

\* String.prototype.trim
Trim(s) == TrimEnd(TrimStart(s))

\* String.prototype.slice(0, n)
Slice0(s, n) == SubSeq(s, 1, IF Len(s) < n THEN Len(s) ELSE n)

\* String.prototype.endsWith
EndsWith(s, suffix) ==
    /\ Len(s) >= Len(suffix)
    /\ SubSeq(s, Len(s) - Len(suffix) + 1, Len(s)) = suffix

DigitChar(d) == << "0", "1", "2", "3", "4", "5", "6", "7", "8", "9" >>[d + 1]

\* the decimal text a template literal gives a non-negative integer
RECURSIVE NumberToString(_)
NumberToString(n) ==
    IF n < 10 THEN << DigitChar(n) >>
    ELSE NumberToString(n \div 10) \o << DigitChar(n % 10) >>

RECURSIVE Join(_, _)
Join(strs, sep) ==
    IF strs = << >> THEN << >>
    ELSE IF Len(strs) = 1 THEN strs[1]
    ELSE strs[1] \o sep \o Join(Tail(strs), sep)

-----------------------------------------------------------------------------
(* Transcript files.  A line is blank, unparseable, or a JSON record. *)

NoCwd == [has |-> FALSE, s |-> << >>]
Cwd(s) == [has |-> TRUE, s |-> s]
NoContent == [tag |-> "none", s |-> << >>, blocks |-> << >>]
StrContent(s) == [tag |-> "str", s |-> s, blocks |-> << >>]
ListContent(bs) == [tag |-> "list", s |-> << >>, blocks |-> bs]
\* content that is neither absent, a string nor an array
ObjContent == [tag |-> "obj", s |-> << >>, blocks |-> << >>]
Block(t, s) == [type |-> t, text |-> s]
\* items of a content array that are not objects: null, and a JSON string
NullBlock == [json |-> "null"]
StringItem(s) == [json |-> "string", s |-> s]
IsJsonObject(block) == "type" \in DOMAIN block
BlankLine == [kind |-> "blank"]
BadLine == [kind |-> "bad"]
\* record.message: absent, or an object with role, model and content ("" is
\* an absent role or model)
NoMessage == [has |-> FALSE, role |-> "", model |-> "", content |-> NoContent]
Message(role, model, content) ==
    [has |-> TRUE, role |-> role, model |-> model, content |-> content]
Record(type, isMeta, cwd, message) ==
    [kind |-> "rec", type |-> type, isMeta |-> isMeta, cwd |-> cwd,
     content |-> message.content, hasMessage |-> message.has, role |-> message.role,
     model |-> message.model]
\* a record as the CLI writes it: the message's role is the record's type
Rec(type, isMeta, cwd, content) ==
    Record(type, isMeta, cwd,
           Message(type, IF type = "assistant" THEN "m1" ELSE "", content))

Work == << "/", "w" >>
Hi == << "h", "i" >>

\* part_000:61
SNAPSHOT_PROMPT_LIMIT == 120

\* a prompt of n characters "x" and then the characters of tail
LongPrompt(n, tail) == [i \in 1 .. n |-> "x"] \o tail

\* the lines of the transcripts the model writes to disk
Transcript(t) ==
    CASE t = "empty" -> << >>
      [] t = "plain" -> << Rec("user", FALSE, Cwd(Work), StrContent(Hi)) >>
      [] t = "late" ->
            << BadLine,
               Rec("user", TRUE, Cwd(<< " " >>), StrContent(<< "m" >>)),
               Rec("assistant", FALSE, NoCwd, StrContent(<< "o", "k" >>)),
               Rec("user", FALSE, NoCwd,
                   ListContent(<< Block("tool_result", << "r" >>),
                                  Block("text", << " ", "y", "o" >>) >>)) >>
      [] t = "nocwd" -> << BlankLine, Rec("user", FALSE, NoCwd, StrContent(<< "q" >>)) >>
      [] t = "odd" ->
            << BadLine,
               Record("user", FALSE, Cwd(Work), NoMessage),
               Record("summary", FALSE, NoCwd, Message("user", "", StrContent(Hi))),
               Record("user", FALSE, NoCwd, Message("", "", StrContent(Hi))),
               Record("assistant", FALSE, NoCwd, Message("assistant", "m2", ObjContent)),
               Rec("user", FALSE, NoCwd, StrContent(<< >>)),
               Rec("user", FALSE, NoCwd, ListContent(<< >>)),
               Rec("user", FALSE, NoCwd,
                   ListContent(<< StringItem(<< "s" >>), Block("text", << "t" >>) >>)),
               Rec("user", FALSE, NoCwd,
                   ListContent(<< Block("tool_result", << "r" >>) >>)),
               Rec("assistant", FALSE, NoCwd,
                   ListContent(<< Block("thinking", << "z" >>),
                                  Block("tool_use", << "u" >>),
                                  Block("image", << "i" >>) >>)) >>
      [] t = "null" ->
            << Rec("user", FALSE, Cwd(Work), StrContent(Hi)),
               Rec("user", FALSE, NoCwd,
                   ListContent(<< NullBlock, Block("text", << "t" >>) >>)),
               Rec("assistant", FALSE, NoCwd, StrContent(<< "o", "k" >>)) >>
      [] t = "long1" ->
            << Rec("user", FALSE, Cwd(Work),
                   StrContent(LongPrompt(SNAPSHOT_PROMPT_LIMIT, << "a" >>))) >>
      [] t = "long2" ->
            << Rec("user", FALSE, Cwd(Work),
                   StrContent(LongPrompt(SNAPSHOT_PROMPT_LIMIT, << "b" >>))) >>
      [] t = "long3" ->
            << Rec("user", FALSE, Cwd(Work),
                   StrContent(LongPrompt(SNAPSHOT_PROMPT_LIMIT - 1, << "y", "a" >>))) >>
      [] t = "colon1" ->
            << Rec("user", FALSE, Cwd(<< "/", "w", ":", "x" >>),
                   StrContent(<< "y" >>)) >>
      [] t = "colon2" ->
            << Rec("user", FALSE, Cwd(Work), StrContent(<< "x", ":", "y" >>)) >>

\* part_000:97-107
RECURSIVE JoinTextBlocks(_)
JoinTextBlocks(blocks) ==
    IF blocks = << >> THEN << >>
    ELSE (IF IsJsonObject(Head(blocks)) /\ Head(blocks).type = "text"
          THEN Head(blocks).text ELSE << >>)
         \o JoinTextBlocks(Tail(blocks))

extractText(content) ==
    CASE content.tag = "none" -> << >>
      [] content.tag = "str" -> content.s
      [] content.tag = "list" -> JoinTextBlocks(content.blocks)
      [] OTHER -> << >>

\* part_000:186
MaxMetadataLines == 200

\* no readSessionMetadata call outside a scan
NoReading == [pc |-> "off"]

\* part_000:161-165: the locals before the first line; taken is the number
\* of lines the loop has taken from the stream, stopped is set by a break
MetadataStart ==
    [project |-> << >>, firstPrompt |-> << >>, linesRead |-> 0, taken |-> 0,
     stopped |-> FALSE]

\* the body without the break of part_000:185
MetadataStepOn(st, line) ==
    IF st.stopped THEN st
    ELSE IF line.kind = "blank" THEN [st EXCEPT !.taken = @ + 1]
    ELSE IF line.kind = "bad" THEN [st EXCEPT !.taken = @ + 1, !.linesRead = @ + 1]
    ELSE
      LET p == IF st.project = << >> /\ line.cwd.has THEN Trim(line.cwd.s)
               ELSE st.project
          text == extractText(line.content)
          f == IF st.firstPrompt = << >> /\ line.type = "user" /\ ~line.isMeta
                  /\ Trim(text) # << >>
               THEN Trim(text) ELSE st.firstPrompt
      IN [project |-> p, firstPrompt |-> f, linesRead |-> st.linesRead + 1,
          taken |-> st.taken + 1,
          stopped |-> st.linesRead + 1 >= MaxMetadataLines]

\* part_000:169-186, the body of the loop for one line
MetadataStep(st, line) ==
    IF st.stopped THEN st
    ELSE IF line.kind = "blank" THEN [st EXCEPT !.taken = @ + 1]
    ELSE IF line.kind = "bad" THEN [st EXCEPT !.taken = @ + 1, !.linesRead = @ + 1]
    ELSE
      LET p == IF st.project = << >> /\ line.cwd.has THEN Trim(line.cwd.s)
               ELSE st.project
          text == extractText(line.content)
          f == IF st.firstPrompt = << >> /\ line.type = "user" /\ ~line.isMeta
                  /\ Trim(text) # << >>
               THEN Trim(text) ELSE st.firstPrompt
      IN [project |-> p, firstPrompt |-> f, linesRead |-> st.linesRead + 1,
          taken |-> st.taken + 1,
          stopped |-> (p # << >> /\ f # << >>)
                      \/ st.linesRead + 1 >= MaxMetadataLines]

\* part_000:168-187: the iterations over lines lo .. hi, in order (halved, so
\* that a long file nests the evaluation only logarithmically)
RECURSIVE MetadataLoop(_, _, _, _)
MetadataLoop(lines, lo, hi, st) ==
    IF lo > hi THEN st
    ELSE IF lo = hi THEN MetadataStep(st, lines[lo])
    ELSE LET mid == (lo + hi) \div 2
             first == MetadataLoop(lines, lo, mid, st)
         IN IF first.stopped THEN first ELSE MetadataLoop(lines, mid + 1, hi, first)

\* part_000:160-195
readSessionMetadata(lines) ==
    LET found == MetadataLoop(lines, 1, Len(lines), MetadataStart)
    IN [project |-> found.project, firstPrompt |-> found.firstPrompt]

\* the number of lines the loop of part_000:168 takes from the stream
LinesTaken(lines) == MetadataLoop(lines, 1, Len(lines), MetadataStart).taken

-----------------------------------------------------------------------------
(* The projects directory on disk *)

NoFile == [exists |-> FALSE]
File(mtimeMs, size, content) ==
    [exists |-> TRUE, mtimeMs |-> mtimeMs, size |-> size, content |-> content]

\* part_000:40, the segments of PROJECTS_DIR
PROJECTS_DIR == << << "c" >>, << "p" >> >>

JsonlSuffix == << ".", "j", "s", "o", "n", "l" >>

SidA == << "a" >>
SidB == << "b" >>
SidC == << "c" >>
DirP == << "-", "p" >>
DirQ == << "-", "q" >>
Notes == << "n", ".", "m", "d" >>

\* the directory and file names of the model, in the order readdir lists them
DirOrder == << DirP, DirQ >>
FileA == SidA \o JsonlSuffix
FileB == SidB \o JsonlSuffix
FileC == SidC \o JsonlSuffix
FileOrder == << FileA, FileB, FileC, Notes >>
DirNames == { DirOrder[i] : i \in DOMAIN DirOrder }
FileNames == { FileOrder[i] : i \in DOMAIN FileOrder }

\* path.join(base, name)
PathJoin(base, name) == Append(base, name)

\* part_000:147-158: the project directories, or none when the listing fails
listProjectDirectories(disk) ==
    SelectSeq(DirOrder, LAMBDA d : d \in disk.dirs)

\* part_000:269-277: the *.jsonl files of a directory; none when readdir fails
ListSessionFiles(disk, dir) ==
    IF dir \notin disk.dirs THEN << >>
    ELSE SelectSeq(FileOrder,
                   LAMBDA n : disk.files[<< dir, n >>].exists /\ EndsWith(n, JsonlSuffix))

\* part_000:278, file.name.replace(/\.jsonl$/, '')
SessionIdOf(name) ==
    IF EndsWith(name, JsonlSuffix) THEN SubSeq(name, 1, Len(name) - Len(JsonlSuffix))
    ELSE name

-----------------------------------------------------------------------------
(* The insertion-ordered Map of part_000:53 and :267: a sequence of entries, *)
(* keyed by sessionId.  set() on a present key keeps the key's position.     *)

MapHas(m, k) == \E i \in DOMAIN m : m[i].sessionId = k
MapGet(m, k) == m[CHOOSE i \in DOMAIN m : m[i].sessionId = k]
MapSet(m, k, v) ==
    IF MapHas(m, k)
    THEN [i \in DOMAIN m |-> IF m[i].sessionId = k THEN v ELSE m[i]]
    ELSE Append(m, v)
MapKeys(m) == { m[i].sessionId : i \in DOMAIN m }

\* part_000:289-294
IsFreshBySize(cache, sessionId, filePath, stats) ==
    /\ MapHas(cache, sessionId)
    /\ MapGet(cache, sessionId).filePath = filePath
    /\ MapGet(cache, sessionId).size = stats.size

IsFresh(cache, sessionId, filePath, stats) ==
    /\ MapHas(cache, sessionId)
    /\ MapGet(cache, sessionId).filePath = filePath
    /\ MapGet(cache, sessionId).mtimeMs = stats.mtimeMs
    /\ MapGet(cache, sessionId).size = stats.size

\* part_000:295
ReusedEntry(cache, sessionId, stats) ==
    [MapGet(cache, sessionId) EXCEPT !.updatedAt = stats.mtimeMs]

\* part_000:300, project || cached?.project || projectDir.name
ResolvedProject(project, cache, sessionId, dirName) ==
    IF project # << >> THEN project
    ELSE IF MapHas(cache, sessionId) /\ MapGet(cache, sessionId).project # << >>
    THEN MapGet(cache, sessionId).project
    ELSE dirName

\* part_000:301-310
ExtractedEntryKept(cache, sessionId, filePath, stats, dirName, meta) ==
    [sessionId |-> sessionId,
     project |-> ResolvedProject(meta.project, cache, sessionId, dirName),
     firstPrompt |-> meta.firstPrompt,
     updatedAt |-> IF MapHas(cache, sessionId) THEN MapGet(cache, sessionId).updatedAt
                   ELSE stats.mtimeMs,
     filePath |-> filePath,
     mtimeMs |-> stats.mtimeMs,
     size |-> stats.size,
     projectDir |-> PathJoin(PROJECTS_DIR, dirName)]

ExtractedEntry(cache, sessionId, filePath, stats, dirName, meta) ==
    [sessionId |-> sessionId,
     project |-> ResolvedProject(meta.project, cache, sessionId, dirName),
     firstPrompt |-> meta.firstPrompt,
     updatedAt |-> stats.mtimeMs,
     filePath |-> filePath,
     mtimeMs |-> stats.mtimeMs,
     size |-> stats.size,
     projectDir |-> PathJoin(PROJECTS_DIR, dirName)]

\* part_000:319-321
Summary(entry) ==
    [sessionId |-> entry.sessionId, project |-> entry.project,
     firstPrompt |-> entry.firstPrompt, updatedAt |-> entry.updatedAt]

Summaries(m) == [i \in DOMAIN m |-> Summary(m[i])]

\* the comparator of part_000:322: a positive value puts b before a
CompareAscending(a, b) == a.updatedAt - b.updatedAt
CompareUpdatedAt(a, b) == b.updatedAt - a.updatedAt

\* Array.prototype.sort is stable: x goes after every element it does not precede
RECURSIVE InsertSorted(_, _)
InsertSorted(sorted, x) ==
    IF sorted = << >> THEN << x >>
    ELSE IF CompareUpdatedAt(Head(sorted), x) > 0
    THEN << x >> \o sorted
    ELSE << Head(sorted) >> \o InsertSorted(Tail(sorted), x)

RECURSIVE SortSummaries(_)
SortSummaries(s) ==
    IF s = << >> THEN << >>
    ELSE InsertSorted(SortSummaries(SubSeq(s, 1, Len(s) - 1)), s[Len(s)])

\* part_000:141-142
SnapshotPartShort(c) ==
    c.sessionId \o << ":" >> \o NumberToString(c.updatedAt) \o << ":" >>
    \o c.project \o << ":" >> \o Slice0(c.firstPrompt, SNAPSHOT_PROMPT_LIMIT - 1)

SnapshotPart(c) ==
    c.sessionId \o << ":" >> \o NumberToString(c.updatedAt) \o << ":" >>
    \o c.project \o << ":" >> \o Slice0(c.firstPrompt, SNAPSHOT_PROMPT_LIMIT)

\* part_000:138-145
buildSnapshotKey(conversations) ==
    Join([i \in DOMAIN conversations |-> SnapshotPart(conversations[i])], << "|" >>)

-----------------------------------------------------------------------------
(* The scan, part_000:260-327.  Each action is the scan's resumption after  *)
(* one await, up to the next await or to the end of the function.           *)

Listeners == { "l1", "l2" }

IdleScan == [pc |-> "idle"]
NoResult == [settled |-> FALSE]
NoRun == [committed |-> FALSE]

Quiet == result = NoResult

SeqToSet(s) == { s[i] : i \in DOMAIN s }

\* the scan's locals when it is about to await listProjectDirectories (line 261)
NewScan == [pc |-> "list", projectDirs |-> << >>, di |-> 0, files |-> << >>, fi |-> 0,
            stats |-> [mtimeMs |-> 0, size |-> 0], nextCache |-> << >>,
            startVer |-> fsVer, seen |-> << >>, failed |-> { }]

\* part_000:259
JoinsNever(promise) == FALSE
JoinsInFlight(promise) == promise

\* part_000:258-260 and 332: the call refreshConversationCache() by caller w
RefreshCall(w) ==
    IF JoinsInFlight(refreshPromise)
    THEN /\ waiters' = Append(waiters, [w EXCEPT !.scan = scanStarts])
         /\ UNCHANGED << refreshPromise, scanStarts, running, scan >>
    ELSE /\ refreshPromise' = TRUE
         /\ scanStarts' = scanStarts + 1
         /\ running' = running + 1
         /\ scan' = NewScan
         /\ waiters' = Append(waiters, [w EXCEPT !.scan = scanStarts + 1])

\* bound of the model: a call of refreshConversationCache joins the scan in
\* flight, or starts one of the MaxScans walks
CanRefresh == JoinsInFlight(refreshPromise) \/ scanStarts < MaxScans

Caller(kind, listener) == [kind |-> kind, listener |-> listener, scan |-> 0]

\* part_000:319-321, the entries the snapshot is built from
SnapshotSourcePartial(nextCache) == SubSeq(nextCache, 1, Len(nextCache) - 1)
SnapshotSource(nextCache) == nextCache

\* part_000:314-317: the shared map after the swap
RECURSIVE MergeCache(_, _)
MergeCache(old, next) ==
    IF next = << >> THEN old
    ELSE MergeCache(MapSet(old, Head(next).sessionId, Head(next)), Tail(next))
SwapCache(old, next) == next

\* part_000:325
KeepSnapshotKey(snapshotKey, last) == last
NextSnapshotKey(snapshotKey, last) == snapshotKey

\* part_000:314-327 and the settling of the promise: the end of the scan body
Commit(sc) ==
    LET conversations == SortSummaries(Summaries(SnapshotSource(sc.nextCache)))
        snapshotKey == buildSnapshotKey(conversations)
        changed == snapshotKey # lastSnapshotKey
    IN /\ conversationCache' = SwapCache(conversationCache, sc.nextCache)
       /\ lastSnapshotKey' = NextSnapshotKey(snapshotKey, lastSnapshotKey)
       /\ result' = [settled |-> TRUE, conversations |-> conversations,
                     changed |-> changed, scan |-> scanStarts,
                     startVer |-> sc.startVer, endVer |-> fsVer, seen |-> sc.seen,
                     projectDirs |-> sc.projectDirs, failed |-> sc.failed]
       /\ scan' = IdleScan
       /\ running' = running - 1
       /\ owed' = IF changed THEN SeqToSet(conversationListeners) ELSE owed

\* part_000:267, 295 and 301: the scan sets its entries in nextCache, a map of
\* its own, and the shared map stays as it is until the end of the scan
BuildsInPlace(cache, sc) == sc.nextCache
BuildsAside(cache, sc) == cache

\* the scan goes on to its next await, or ends
Proceed(sc) ==
    IF sc.pc = "commit" THEN Commit(sc)
    ELSE /\ scan' = sc
         /\ conversationCache' = BuildsAside(conversationCache, sc)
         /\ UNCHANGED << lastSnapshotKey, result, running, owed >>

\* part_000:268 and 275: the next directory to list, or the end of both loops
NextDir(sc) ==
    IF sc.di < Len(sc.projectDirs)
    THEN [sc EXCEPT !.pc = "readdir", !.di = sc.di + 1, !.files = << >>, !.fi = 0]
    ELSE [sc EXCEPT !.pc = "commit"]

\* part_000:275: the next file to stat, or the next directory
NextFile(sc) ==
    IF sc.fi < Len(sc.files)
    THEN [sc EXCEPT !.pc = "stat", !.fi = sc.fi + 1]
    ELSE NextDir(sc)

\* part_000:216-223; ok is whether fs.watch succeeded
ensureProjectsWatcher(watcher, ok) == IF watcher THEN TRUE ELSE ok

\* part_000:197-214; failed are the directories whose fs.watch threw
syncWithoutClose(watchers, projectDirs, failed) == watchers \cup (projectDirs \ failed)
syncProjectWatchers(watchers, projectDirs, failed) ==
    ((watchers \cup (projectDirs \ failed)) \cap projectDirs)

\* part_000:262
WatchersOn(enabled) == enabled

\* part_000:261-268
ScanList ==
    /\ Quiet
    /\ scan.pc = "list"
    /\ LET dirs == listProjectDirectories(fs)
           sc == [scan EXCEPT !.projectDirs = dirs]
       IN IF WatchersOn(watchersEnabled)
          THEN /\ \E ok \in BOOLEAN :
                     projectsWatcher' = ensureProjectsWatcher(projectsWatcher, ok)
               /\ \E failed \in SUBSET (SeqToSet(dirs) \ projectWatchers) :
                     /\ projectWatchers' =
                            syncProjectWatchers(projectWatchers, SeqToSet(dirs), failed)
                     /\ Proceed(NextDir([sc EXCEPT !.failed = failed]))
          ELSE /\ UNCHANGED << projectsWatcher, projectWatchers >>
               /\ Proceed(NextDir(sc))
    /\ notified' = << >>
    /\ UNCHANGED << fs, fsVer, conversationListeners, refreshPromise, refreshTimer,
                    watchersEnabled, pendingTimers, scanStarts, waiters, subscriptions,
                    subscribeCalls, requests, events, burst, firedBurst, got, lastRun,
                    prevRun >>
    /\ UNCHANGED << load, faults, browse, reading, clock >>

\* part_000:269-277
ScanReaddir ==
    /\ Quiet
    /\ scan.pc = "readdir"
    /\ LET dir == scan.projectDirs[scan.di]
           sc == [scan EXCEPT !.files = ListSessionFiles(fs, dir), !.fi = 0]
       IN Proceed(NextFile(sc))
    /\ notified' = << >>
    /\ UNCHANGED << fs, fsVer, projectWatchers, conversationListeners, projectsWatcher,
                    refreshPromise, refreshTimer, watchersEnabled, pendingTimers,
                    scanStarts, waiters, subscriptions, subscribeCalls, requests,
                    events, burst, firedBurst, got, lastRun, prevRun >>
    /\ UNCHANGED << load, faults, browse, reading, clock >>

\* part_000:278-297
ScanStat ==
    /\ Quiet
    /\ scan.pc = "stat"
    /\ LET dir == scan.projectDirs[scan.di]
           name == scan.files[scan.fi]
           sessionId == SessionIdOf(name)
           filePath == PathJoin(PathJoin(PROJECTS_DIR, dir), name)
           onDisk == IF dir \in fs.dirs THEN fs.files[<< dir, name >>] ELSE NoFile
       IN IF ~onDisk.exists
          THEN Proceed(NextFile(scan))
          ELSE LET stats == [mtimeMs |-> onDisk.mtimeMs, size |-> onDisk.size]
                   sc == [scan EXCEPT !.stats = stats,
                                      !.seen = Append(scan.seen, << dir, sessionId >>)]
               IN IF IsFresh(conversationCache, sessionId, filePath, stats)
                  THEN Proceed(NextFile(
                         [sc EXCEPT !.nextCache =
                            MapSet(sc.nextCache, sessionId,
                                   ReusedEntry(conversationCache, sessionId, stats))]))
                  ELSE Proceed([sc EXCEPT !.pc = "read"])
    /\ notified' = << >>
    /\ UNCHANGED << fs, fsVer, projectWatchers, conversationListeners, projectsWatcher,
                    refreshPromise, refreshTimer, watchersEnabled, pendingTimers,
                    scanStarts, waiters, subscriptions, subscribeCalls, requests,
                    events, burst, firedBurst, got, lastRun, prevRun >>
    /\ UNCHANGED << load, faults, browse, reading, clock >>

\* part_000:299-311
ScanRead ==
    /\ Quiet
    /\ scan.pc = "read"
    /\ LET dir == scan.projectDirs[scan.di]
           name == scan.files[scan.fi]
           sessionId == SessionIdOf(name)
           filePath == PathJoin(PathJoin(PROJECTS_DIR, dir), name)
           onDisk == IF dir \in fs.dirs THEN fs.files[<< dir, name >>] ELSE NoFile
           lines == IF onDisk.exists THEN Transcript(onDisk.content) ELSE << >>
           meta == readSessionMetadata(lines)
           entry == ExtractedEntry(conversationCache, sessionId, filePath, scan.stats,
                                   dir, meta)
       IN Proceed(NextFile(
            [scan EXCEPT !.nextCache = MapSet(scan.nextCache, sessionId, entry)]))
    /\ notified' = << >>
    /\ UNCHANGED << fs, fsVer, projectWatchers, conversationListeners, projectsWatcher,
                    refreshPromise, refreshTimer, watchersEnabled, pendingTimers,
                    scanStarts, waiters, subscriptions, subscribeCalls, requests,
                    events, burst, firedBurst, got, lastRun, prevRun >>
    /\ UNCHANGED << load, faults, browse, reading, clock >>

-----------------------------------------------------------------------------
(* The promise reactions that run once the scan body has returned *)

Delivery(l, via) ==
    [to |-> l, via |-> via, conversations |-> result.conversations,
     changed |-> result.changed, scan |-> result.scan]

\* part_000:329: the handle once the callback of .finally has run
HandleKept(promise) == promise
HandleCleared(promise) == FALSE

\* part_000:328-330
Settle ==
    /\ result # NoResult
    /\ refreshPromise
    /\ refreshPromise' = HandleCleared(refreshPromise)
    /\ notified' = << >>
    /\ UNCHANGED << fs, fsVer, conversationCache, projectWatchers, conversationListeners,
                    projectsWatcher, refreshTimer, lastSnapshotKey, watchersEnabled,
                    pendingTimers, scan, running, scanStarts, waiters, result,
                    subscriptions, subscribeCalls, requests, events, burst, firedBurst,
                    got, owed, lastRun, prevRun >>
    /\ UNCHANGED << load, faults, browse, reading, clock >>

\* the caller at the head of the queue resumes; the last one empties the queue
Resume ==
    /\ waiters' = Tail(waiters)
    /\ result' = IF Len(waiters) = 1 THEN NoResult ELSE result

\* part_000:250
EmitsAlways(changed) == TRUE
EmitsWhen(changed) == changed

\* part_000:249-253: emitConversationUpdates resumes with the scan's result
ContinueEmit ==
    /\ result # NoResult /\ ~refreshPromise
    /\ waiters # << >> /\ Head(waiters).kind = "emit"
    /\ Resume
    /\ IF EmitsWhen(result.changed)
       THEN /\ notified' = [i \in DOMAIN conversationListeners |->
                              Delivery(conversationListeners[i], "emit")]
            /\ got' = [l \in Listeners |->
                         IF l \in SeqToSet(conversationListeners)
                         THEN result.scan ELSE got[l]]
            /\ owed' = owed \ SeqToSet(conversationListeners)
       ELSE /\ notified' = << >>
            /\ UNCHANGED << got, owed >>
    /\ UNCHANGED << fs, fsVer, conversationCache, projectWatchers, conversationListeners,
                    projectsWatcher, refreshPromise, refreshTimer, lastSnapshotKey,
                    watchersEnabled, pendingTimers, scan, running, scanStarts,
                    subscriptions, subscribeCalls, requests, events, burst, firedBurst,
                    lastRun, prevRun >>
    /\ UNCHANGED << load, faults, browse, reading, clock >>

\* part_000:361: the .then takes the snapshot of the result and not its flag
InitialWhen(changed) == changed
InitialAlways(changed) == TRUE

\* part_000:361: the .then of watchConversations hands the result to its listener
ContinueWatch ==
    /\ result # NoResult /\ ~refreshPromise
    /\ waiters # << >> /\ Head(waiters).kind = "watch"
    /\ Resume
    /\ LET l == Head(waiters).listener
       IN IF InitialAlways(result.changed)
          THEN /\ notified' = << Delivery(l, "watch") >>
               /\ got' = [got EXCEPT ![l] = result.scan]
               /\ owed' = owed \ { l }
          ELSE /\ notified' = << >>
               /\ UNCHANGED << got, owed >>
    /\ UNCHANGED << fs, fsVer, conversationCache, projectWatchers, conversationListeners,
                    projectsWatcher, refreshPromise, refreshTimer, lastSnapshotKey,
                    watchersEnabled, pendingTimers, scan, running, scanStarts,
                    subscriptions, subscribeCalls, requests, events, burst, firedBurst,
                    lastRun, prevRun >>
    /\ UNCHANGED << load, faults, browse, reading, clock >>

\* part_000:370-371: listConversations returns the snapshot to its caller
ContinueList ==
    /\ result # NoResult /\ ~refreshPromise
    /\ waiters # << >> /\ Head(waiters).kind = "list"
    /\ Resume
    /\ IF lastRun # NoRun /\ lastRun.scan = result.scan
       THEN UNCHANGED << lastRun, prevRun >>
       ELSE /\ prevRun' = lastRun
            /\ lastRun' = result
    /\ notified' = << >>
    /\ UNCHANGED << fs, fsVer, conversationCache, projectWatchers, conversationListeners,
                    projectsWatcher, refreshPromise, refreshTimer, lastSnapshotKey,
                    watchersEnabled, pendingTimers, scan, running, scanStarts,
                    subscriptions, subscribeCalls, requests, events, burst, firedBurst,
                    got, owed >>
    /\ UNCHANGED << load, faults, browse, reading, clock >>

-----------------------------------------------------------------------------
(* Requests, watcher callbacks and the timer *)

SetAdd(set, l) == IF l \in SeqToSet(set) THEN set ELSE Append(set, l)
SetDelete(set, l) == SelectSeq(set, LAMBDA x : x # l)

\* part_000:235
StaysEnabled == TRUE
EnabledAfterStop == FALSE

\* part_000:356-362
WatchConversations(l) ==
    /\ Quiet
    /\ subscribeCalls' = subscribeCalls + 1
    /\ subscriptions' = [subscriptions EXCEPT ![l] = @ + 1]
    /\ conversationListeners' = SetAdd(conversationListeners, l)
    /\ watchersEnabled' = TRUE
    /\ \E ok \in BOOLEAN : projectsWatcher' = ensureProjectsWatcher(projectsWatcher, ok)
    /\ RefreshCall(Caller("watch", l))
    /\ notified' = << >>
    /\ UNCHANGED << fs, fsVer, conversationCache, projectWatchers, refreshTimer,
                    lastSnapshotKey, pendingTimers, result, requests, events, burst,
                    firedBurst, got, owed, lastRun, prevRun >>
    /\ UNCHANGED << load, faults, browse, reading, clock >>

\* part_000:363-366 with stopWatchersIfIdle, part_000:225-236
Unsubscribe(l) ==
    /\ Quiet
    /\ subscriptions[l] > 0
    /\ subscriptions' = [subscriptions EXCEPT ![l] = @ - 1]
    /\ conversationListeners' = SetDelete(conversationListeners, l)
    /\ IF Len(conversationListeners') > 0
       THEN UNCHANGED << projectWatchers, projectsWatcher, watchersEnabled >>
       ELSE /\ projectWatchers' = { }
            /\ projectsWatcher' = FALSE
            /\ watchersEnabled' = EnabledAfterStop
    /\ owed' = owed \ { l }
    /\ notified' = << >>
    /\ UNCHANGED << fs, fsVer, conversationCache, refreshPromise, refreshTimer,
                    lastSnapshotKey, pendingTimers, scan, running, scanStarts, waiters,
                    result, subscribeCalls, requests, events, burst, firedBurst, got,
                    lastRun, prevRun >>
    /\ UNCHANGED << load, faults, browse, reading, clock >>

\* part_000:369-370
ListConversations ==
    /\ Quiet
    /\ requests' = requests + 1
    /\ RefreshCall(Caller("list", "none"))
    /\ notified' = << >>
    /\ UNCHANGED << fs, fsVer, conversationCache, projectWatchers, conversationListeners,
                    projectsWatcher, refreshTimer, lastSnapshotKey, watchersEnabled,
                    pendingTimers, result, subscriptions, subscribeCalls, events, burst,
                    firedBurst, got, owed, lastRun, prevRun >>
    /\ UNCHANGED << load, faults, browse, reading, clock >>

\* part_000:244: the debounce delay, in milliseconds
DEBOUNCE_MS == 150

\* now is the time in milliseconds; deadline is when the timer refreshTimer
\* holds is due and first is when the burst it absorbs began (0 without one)
StartClock == [now |-> 0, deadline |-> 0, first |-> 0]

\* part_000:240: the timers left once the pending one, if any, is cleared
KeepPending(timer, pending) == pending
ClearPending(timer, pending) == IF timer THEN pending - 1 ELSE pending

\* part_000:241-244: the refresh is left to the callback of the timer
RefreshesNow(w) == RefreshCall(w)
RefreshesLater(w) == UNCHANGED << refreshPromise, scanStarts, running, scan, waiters >>

\* a watcher's callback, part_000:202 and 219, runs scheduleConversationRefresh,
\* part_000:238-245
WatchEvent ==
    /\ Quiet
    /\ projectsWatcher \/ projectWatchers # { }
    /\ events' = events + 1
    /\ IF ~watchersEnabled
       THEN UNCHANGED << refreshTimer, pendingTimers, burst, clock, refreshPromise,
                         scanStarts, running, scan, waiters >>
       ELSE /\ pendingTimers' = ClearPending(refreshTimer, pendingTimers) + 1
            /\ RefreshesLater(Caller("emit", "none"))
            /\ refreshTimer' = TRUE
            /\ burst' = burst + 1
            /\ clock' = [clock EXCEPT
                            !.deadline = clock.now + DEBOUNCE_MS,
                            !.first = IF refreshTimer THEN @ ELSE clock.now]
    /\ notified' = << >>
    /\ UNCHANGED << fs, fsVer, conversationCache, projectWatchers, conversationListeners,
                    projectsWatcher, lastSnapshotKey, watchersEnabled, result,
                    subscriptions, subscribeCalls, requests, firedBurst, got, owed,
                    lastRun, prevRun >>
    /\ UNCHANGED << load, faults, browse, reading >>

\* part_000:241-244 and 247-249: the timer's callback
TimerFire ==
    /\ Quiet
    /\ pendingTimers > 0
    /\ pendingTimers' = pendingTimers - 1
    /\ refreshTimer' = FALSE
    /\ firedBurst' = burst
    /\ burst' = 0
    /\ clock' = [clock EXCEPT !.deadline = 0, !.first = 0]
    /\ RefreshCall(Caller("emit", "none"))
    /\ notified' = << >>
    /\ UNCHANGED << fs, fsVer, conversationCache, projectWatchers, conversationListeners,
                    projectsWatcher, lastSnapshotKey, watchersEnabled, result,
                    subscriptions, subscribeCalls, requests, events, got, owed, lastRun,
                    prevRun >>
    /\ UNCHANGED << load, faults, browse, reading >>

-----------------------------------------------------------------------------
(* The external writer *)

FsWriteFile(dir, name, mtimeMs, size, content) ==
    /\ Quiet
    /\ dir \in fs.dirs
    /\ fs.files[<< dir, name >>] # File(mtimeMs, size, content)
    /\ fs' = [fs EXCEPT !.files[<< dir, name >>] = File(mtimeMs, size, content)]
    /\ fsVer' = fsVer + 1
    /\ notified' = << >>
    /\ UNCHANGED << conversationCache, projectWatchers, conversationListeners,
                    projectsWatcher, refreshPromise, refreshTimer, lastSnapshotKey,
                    watchersEnabled, pendingTimers, scan, running, scanStarts, waiters,
                    result, subscriptions, subscribeCalls, requests, events, burst,
                    firedBurst, got, owed, lastRun, prevRun >>
    /\ UNCHANGED << load, faults, browse, reading, clock >>

FsRemoveFile(dir, name) ==
    /\ Quiet
    /\ dir \in fs.dirs
    /\ fs.files[<< dir, name >>].exists
    /\ fs' = [fs EXCEPT !.files[<< dir, name >>] = NoFile]
    /\ fsVer' = fsVer + 1
    /\ notified' = << >>
    /\ UNCHANGED << conversationCache, projectWatchers, conversationListeners,
                    projectsWatcher, refreshPromise, refreshTimer, lastSnapshotKey,
                    watchersEnabled, pendingTimers, scan, running, scanStarts, waiters,
                    result, subscriptions, subscribeCalls, requests, events, burst,
                    firedBurst, got, owed, lastRun, prevRun >>
    /\ UNCHANGED << load, faults, browse, reading, clock >>

FsMakeDir(dir) ==
    /\ Quiet
    /\ dir \notin fs.dirs
    /\ fs' = [fs EXCEPT !.dirs = @ \cup { dir }]
    /\ fsVer' = fsVer + 1
    /\ notified' = << >>
    /\ UNCHANGED << conversationCache, projectWatchers, conversationListeners,
                    projectsWatcher, refreshPromise, refreshTimer, lastSnapshotKey,
                    watchersEnabled, pendingTimers, scan, running, scanStarts, waiters,
                    result, subscriptions, subscribeCalls, requests, events, burst,
                    firedBurst, got, owed, lastRun, prevRun >>
    /\ UNCHANGED << load, faults, browse, reading, clock >>

FsRemoveDir(dir) ==
    /\ Quiet
    /\ dir \in fs.dirs
    /\ fs' = [dirs |-> fs.dirs \ { dir },
              files |-> [k \in DOMAIN fs.files |->
                           IF k[1] = dir THEN NoFile ELSE fs.files[k]]]
    /\ fsVer' = fsVer + 1
    /\ notified' = << >>
    /\ UNCHANGED << conversationCache, projectWatchers, conversationListeners,
                    projectsWatcher, refreshPromise, refreshTimer, lastSnapshotKey,
                    watchersEnabled, pendingTimers, scan, running, scanStarts, waiters,
                    result, subscriptions, subscribeCalls, requests, events, burst,
                    firedBurst, got, owed, lastRun, prevRun >>
    /\ UNCHANGED << load, faults, browse, reading, clock >>

-----------------------------------------------------------------------------
(* node:path on POSIX.  A path string is a sequence of characters; resolve, *)
(* join and dirname are computed on it.                                     *)

Sep == "/"

\* String.prototype.startsWith
StartsWith(s, prefix) ==
    /\ Len(s) >= Len(prefix)
    /\ SubSeq(s, 1, Len(prefix)) = prefix

\* the pieces of s between separators, empty pieces included
RECURSIVE SplitFrom(_, _)
SplitFrom(s, piece) ==
    IF s = << >> THEN << piece >>
    ELSE IF Head(s) = Sep THEN << piece >> \o SplitFrom(Tail(s), << >>)
    ELSE SplitFrom(Tail(s), Append(piece, Head(s)))

SplitPath(s) == SplitFrom(s, << >>)

\* the segments of an absolute path once "", "." and ".." are resolved
RECURSIVE NormalizeSegments(_, _)
NormalizeSegments(segments, done) ==
    IF segments = << >> THEN done
    ELSE LET h == Head(segments)
         IN IF h = << >> \/ h = << "." >>
            THEN NormalizeSegments(Tail(segments), done)
            ELSE IF h = << ".", "." >>
            THEN NormalizeSegments(Tail(segments),
                                   IF done = << >> THEN done
                                   ELSE SubSeq(done, 1, Len(done) - 1))
            ELSE NormalizeSegments(Tail(segments), Append(done, h))

\* the absolute path string of a sequence of segments
PathString(segments) == << Sep >> \o Join(segments, << Sep >>)

IsAbsolute(p) == p # << >> /\ Head(p) = Sep

\* path.resolve(p) in a process whose working directory is cwd
pathResolve(cwd, p) ==
    PathString(NormalizeSegments(
        SplitPath(IF IsAbsolute(p) THEN p ELSE cwd \o << Sep >> \o p), << >>))

\* path.dirname of a resolved absolute path
pathDirname(p) ==
    LET i == CHOOSE k \in 1..Len(p) :
                 p[k] = Sep /\ \A j \in (k + 1)..Len(p) : p[j] # Sep
    IN IF i = 1 THEN << Sep >> ELSE SubSeq(p, 1, i - 1)

\* path.basename of a resolved absolute path
pathBasename(p) ==
    LET segments == NormalizeSegments(SplitPath(p), << >>)
    IN IF segments = << >> THEN << >> ELSE segments[Len(segments)]

\* part_000:339
RootPrefixBare(root) == root
RootPrefix(root) == IF EndsWith(root, << Sep >>) THEN root ELSE root \o << Sep >>

\* part_000:335-341
clampToRoot(root, cwd, targetPath) ==
    LET resolved == pathResolve(cwd, targetPath)
    IN IF resolved = root THEN resolved
       ELSE IF root = << Sep >> THEN resolved
       ELSE IF StartsWith(resolved, RootPrefix(root)) THEN resolved ELSE root

-----------------------------------------------------------------------------
(* Directory browsing, part_000:374-395 *)

NoPath == [has |-> FALSE, s |-> << >>]
SomePath(s) == [has |-> TRUE, s |-> s]

NoBrowse == [pc |-> "off"]
NoListing == [returned |-> FALSE]

\* the directories and the file of the machine's tree
PathRoot == << Sep >>
PathH == << Sep, "h" >>
PathHome == PathH \o << Sep, "u" >>
PathD == PathHome \o << Sep, "d" >>
PathHidden == PathHome \o << Sep, ".", "x" >>
PathSibling == PathHome \o << "-", "o" >>
PathE == << Sep, "e" >>
PathFile == PathHome \o << Sep, "f" >>

TreeFiles == { PathFile }

\* the order in which the operating system returns the entries of a directory
DiskOrder == << PathRoot, PathSibling, PathH, PathE, PathHome, PathD, PathFile,
                PathHidden >>

\* the order of localeCompare on the names of the tree
Collation == << << ".", "x" >>, << "d" >>, << "e" >>, << "f" >>, << "h" >>,
                << "u" >>, << "u", "-", "o" >> >>

localeCompare(a, b) ==
    (CHOOSE i \in DOMAIN Collation : Collation[i] = a)
        - (CHOOSE i \in DOMAIN Collation : Collation[i] = b)

RECURSIVE InsertName(_, _)
InsertName(sorted, name) ==
    IF sorted = << >> THEN << name >>
    ELSE IF localeCompare(name, Head(sorted)) < 0 THEN << name >> \o sorted
    ELSE << Head(sorted) >> \o InsertName(Tail(sorted), name)

\* Array.prototype.sort((a, b) => a.localeCompare(b))
RECURSIVE SortNames(_)
SortNames(names) ==
    IF names = << >> THEN << >>
    ELSE InsertName(SortNames(SubSeq(names, 1, Len(names) - 1)), names[Len(names)])

\* fs.readdir(basePath, { withFileTypes: true }); it throws unless basePath is a
\* directory
ReaddirThrows(dirs, basePath) == basePath \notin dirs

Readdir(dirs, basePath) ==
    LET children == SelectSeq(DiskOrder, LAMBDA p :
                        /\ p \in dirs \cup TreeFiles
                        /\ p # PathRoot
                        /\ pathDirname(p) = basePath)
    IN [i \in DOMAIN children |->
          [name |-> pathBasename(children[i]), isDirectory |-> children[i] \in dirs]]

\* part_000:382
Hidden(name) == StartsWith(name, << "." >>)

\* part_000:377-387
DirEntries(dirs, basePath, showHidden) ==
    IF ReaddirThrows(dirs, basePath) THEN << >>
    ELSE LET directories == SelectSeq(Readdir(dirs, basePath),
                                      LAMBDA entry : entry.isDirectory)
             names == [i \in DOMAIN directories |-> directories[i].name]
         IN SortNames(SelectSeq(names, LAMBDA name : showHidden \/ ~Hidden(name)))

\* part_000:375; an empty string is falsy
BasePath(root, cwd, requestPath) ==
    IF requestPath.has /\ requestPath.s # << >>
    THEN clampToRoot(root, cwd, requestPath.s)
    ELSE root

\* part_000:389
ParentAlways(basePath, root) == SomePath(pathDirname(basePath))
ParentOf(basePath, root) ==
    IF basePath = root THEN NoPath ELSE SomePath(pathDirname(basePath))

\* part_000:391-395
DirectoryListing(dirs, root, showHidden, basePath) ==
    [returned |-> TRUE, path |-> basePath, parent |-> ParentOf(basePath, root),
     entries |-> DirEntries(dirs, basePath, showHidden)]

\* part_000:374-376: the call, up to the await of fs.readdir
ListDirectories(requestPath) ==
    /\ browse.pc \in { "idle", "done" }
    /\ browse' = [browse EXCEPT
                    !.pc = "readdir",
                    !.requestPath = requestPath,
                    !.basePath = BasePath(browse.root, browse.cwd, requestPath),
                    !.listing = NoListing]
    /\ UNCHANGED indexVars

\* part_000:377-395: readdir has completed, or thrown
ListDirectoriesReturn ==
    /\ browse.pc = "readdir"
    /\ browse' = [browse EXCEPT
                    !.pc = "done",
                    !.listing = DirectoryListing(browse.dirs, browse.root,
                                                 browse.showHidden, browse.basePath)]
    /\ UNCHANGED indexVars

\* somebody else makes or removes a directory of the tree
TreeMakeDir(d) ==
    /\ browse.pc # "off"
    /\ d \notin browse.dirs
    /\ pathDirname(d) \in browse.dirs
    /\ browse' = [browse EXCEPT !.dirs = @ \cup { d }, !.ops = @ + 1]
    /\ UNCHANGED indexVars

TreeRemoveDir(d) ==
    /\ browse.pc # "off"
    /\ d \in browse.dirs
    /\ \A p \in browse.dirs \cup TreeFiles : p = d \/ pathDirname(p) # d
    /\ browse' = [browse EXCEPT !.dirs = @ \ { d }, !.ops = @ + 1]
    /\ UNCHANGED indexVars

-----------------------------------------------------------------------------
(* Loading a session, part_000:343-354 and 397-440 *)

\* part_000:63-65: every / and \ becomes -
encodeProjectPath(projectPath) ==
    [i \in DOMAIN projectPath |->
        IF projectPath[i] \in { "/", "\\" } THEN "-" ELSE projectPath[i]]

\* path.join of PROJECTS_DIR with two more parts: the segments of the result
pathJoin(base, part, name) ==
    NormalizeSegments(base \o SplitPath(part) \o SplitPath(name), << >>)

\* part_000:345
CandidatePath(sessionId, project) ==
    pathJoin(PROJECTS_DIR, encodeProjectPath(project), sessionId \o JsonlSuffix)

HistoryFile == << "h" >> \o JsonlSuffix

\* the files of the machine that are not in a project directory
StrayFiles == { << << "c" >>, HistoryFile >> }

\* what fs.access, fs.stat and fs.readFile find at a path
FileAt(disk, filePath) ==
    IF /\ Len(filePath) = Len(PROJECTS_DIR) + 2
       /\ SubSeq(filePath, 1, Len(PROJECTS_DIR)) = PROJECTS_DIR
       /\ filePath[Len(filePath) - 1] \in disk.dirs
       /\ filePath[Len(filePath)] \in FileNames
    THEN disk.files[<< filePath[Len(filePath) - 1], filePath[Len(filePath)] >>]
    ELSE IF filePath \in StrayFiles THEN File(1, 1, "plain")
    ELSE NoFile

\* part_000:67-74
fileExists(disk, filePath) == FileAt(disk, filePath).exists

\* part_000:76-95: the parsed records of the lines that are neither blank nor
\* unparseable; none when the file cannot be read
readJsonLines(disk, filePath) ==
    IF ~FileAt(disk, filePath).exists THEN << >>
    ELSE SelectSeq(Transcript(FileAt(disk, filePath).content),
                   LAMBDA line : line.kind = "rec")

\* JSON.stringify of a block
JsonStringify(block) ==
    IF IsJsonObject(block) THEN << "{" >> \o block.text \o << "}" >>
    ELSE << "\"" >> \o block.s \o << "\"" >>

\* part_000:115-134, for a block that is not null
NormalizeBlock(block) ==
    IF ~IsJsonObject(block) THEN [type |-> "other", text |-> JsonStringify(block)]
    ELSE CASE block.type = "text" -> [type |-> "text", text |-> block.text]
           [] block.type = "tool_use" -> [type |-> "tool_use", text |-> block.text]
           [] block.type = "tool_result" -> [type |-> "tool_result", text |-> block.text]
           [] block.type \in { "thinking", "analysis", "reasoning" } ->
                 [type |-> "reasoning", text |-> block.text]
           [] OTHER -> [type |-> "other", text |-> JsonStringify(block)]

\* part_000:115: block.type of a null block is a TypeError
NormalizeThrows(content) ==
    content.tag = "list" /\ \E i \in DOMAIN content.blocks : content.blocks[i] = NullBlock

\* part_000:109-136, when it does not throw
normalizeBlocks(content) ==
    CASE content.tag = "str" ->
            IF content.s = << >> THEN << >>
            ELSE << [type |-> "text", text |-> content.s] >>
      [] content.tag = "list" ->
            [i \in DOMAIN content.blocks |-> NormalizeBlock(content.blocks[i])]
      [] OTHER -> << >>

NoOutcome == [status |-> "none"]
Rejected == [status |-> "rejected"]
Returned(messages, model) ==
    [status |-> "returned", messages |-> messages, model |-> model]

\* part_000:423-425
RoleOfSome(blocks, role) ==
    IF \E i \in DOMAIN blocks : blocks[i].type = "tool_result" THEN "tool" ELSE role

RoleOf(blocks, role) ==
    IF \A i \in DOMAIN blocks : blocks[i].type = "tool_result" THEN "tool" ELSE role

\* part_000:405-439: the loop over the records still to come
RECURSIVE MessagesLoop(_, _, _)
MessagesLoop(records, messages, lastModel) ==
    IF records = << >> THEN Returned(messages, lastModel)
    ELSE
      LET record == Head(records) IN
      IF record.type \notin { "user", "assistant" }
      THEN MessagesLoop(Tail(records), messages, lastModel)
      ELSE IF ~record.hasMessage \/ record.role = ""
      THEN MessagesLoop(Tail(records), messages, lastModel)
      ELSE
        LET model == IF record.role = "assistant" /\ record.model # ""
                     THEN record.model ELSE lastModel
        IN IF NormalizeThrows(record.content) THEN Rejected
           ELSE LET blocks == normalizeBlocks(record.content)
                IN IF blocks = << >>
                   THEN MessagesLoop(Tail(records), messages, model)
                   ELSE MessagesLoop(Tail(records),
                            Append(messages,
                                   [role |-> RoleOf(blocks, record.role),
                                    blocks |-> blocks, isMeta |-> record.isMeta]),
                            model)

NoLoad == [pc |-> "idle"]

\* part_000:344-347: the file of the project argument is taken when it exists
PrefersCache(exists, cached) == exists /\ ~cached
PrefersCandidate(exists, cached) == exists

\* part_000:348-350: the cached path, or else the call of refreshConversationCache
CacheOrRefresh(l) ==
    IF MapHas(conversationCache, l.sessionId)
    THEN /\ load' = [l EXCEPT !.pc = "read", !.how = "cache",
                              !.filePath =
                                  SomePath(MapGet(conversationCache, l.sessionId).filePath)]
         /\ UNCHANGED << refreshPromise, scanStarts, running, scan, waiters >>
    ELSE /\ load' = [l EXCEPT !.pc = "refresh", !.refreshes = @ + 1]
         /\ RefreshCall(Caller("load", "none"))

\* part_000:397-398 and 343-350: the call, up to its first await of I/O or of
\* the refresh
LoadConversation(sessionId, project) ==
    /\ Quiet
    /\ load.pc \in { "idle", "done" }
    /\ requests' = requests + 1
    /\ LET l == [pc |-> "access", sessionId |-> sessionId, project |-> project,
                 candidate |-> IF project.has /\ project.s # << >>
                               THEN SomePath(CandidatePath(sessionId, project.s))
                               ELSE NoPath,
                 filePath |-> NoPath, how |-> "none", refreshes |-> 0,
                 outcome |-> NoOutcome]
       IN IF l.candidate.has
          THEN /\ load' = l
               /\ UNCHANGED << refreshPromise, scanStarts, running, scan, waiters >>
          ELSE CacheOrRefresh(l)
    /\ notified' = << >>
    /\ UNCHANGED << fs, fsVer, conversationCache, projectWatchers, conversationListeners,
                    projectsWatcher, refreshTimer, lastSnapshotKey, watchersEnabled,
                    pendingTimers, result, subscriptions, subscribeCalls, events, burst,
                    firedBurst, got, owed, lastRun, prevRun, faults, browse,
                    reading, clock >>

\* part_000:346-350: fs.access on the candidate has completed
LoadAccess ==
    /\ Quiet
    /\ load.pc = "access"
    /\ IF PrefersCandidate(fileExists(fs, load.candidate.s),
                           MapHas(conversationCache, load.sessionId))
       THEN /\ load' = [load EXCEPT !.pc = "read", !.how = "project",
                                    !.filePath = load.candidate]
            /\ UNCHANGED << refreshPromise, scanStarts, running, scan, waiters >>
       ELSE CacheOrRefresh(load)
    /\ notified' = << >>
    /\ UNCHANGED << fs, fsVer, conversationCache, projectWatchers, conversationListeners,
                    projectsWatcher, refreshTimer, lastSnapshotKey, watchersEnabled,
                    pendingTimers, result, subscriptions, subscribeCalls, requests,
                    events, burst, firedBurst, got, owed, lastRun, prevRun, faults,
                    browse, reading, clock >>

\* part_000:350-353 and 398: resolveSessionFile resumes with the scan's result
ContinueLoad ==
    /\ result # NoResult /\ ~refreshPromise
    /\ waiters # << >> /\ Head(waiters).kind = "load"
    /\ Resume
    /\ LET found == \E i \in DOMAIN result.conversations :
                        result.conversations[i].sessionId = load.sessionId
       IN IF found /\ MapHas(conversationCache, load.sessionId)
          THEN load' = [load EXCEPT !.pc = "read", !.how = "refresh",
                                    !.filePath =
                                        SomePath(MapGet(conversationCache,
                                                        load.sessionId).filePath)]
          ELSE load' = [load EXCEPT !.pc = "done", !.outcome = Returned(<< >>, "")]
    /\ notified' = << >>
    /\ UNCHANGED << fs, fsVer, conversationCache, projectWatchers, conversationListeners,
                    projectsWatcher, refreshPromise, refreshTimer, lastSnapshotKey,
                    watchersEnabled, pendingTimers, scan, running, scanStarts,
                    subscriptions, subscribeCalls, requests, events, burst, firedBurst,
                    got, owed, lastRun, prevRun, faults, browse, reading, clock >>

\* part_000:401-439: fs.readFile has completed, or thrown
LoadRead ==
    /\ Quiet
    /\ load.pc = "read"
    /\ load' = [load EXCEPT !.pc = "done",
                            !.outcome = MessagesLoop(readJsonLines(fs, load.filePath.s),
                                                     << >>, "")]
    /\ notified' = << >>
    /\ UNCHANGED << fs, fsVer, conversationCache, projectWatchers, conversationListeners,
                    projectsWatcher, refreshPromise, refreshTimer, lastSnapshotKey,
                    watchersEnabled, pendingTimers, scan, running, scanStarts, waiters,
                    result, subscriptions, subscribeCalls, requests, events, burst,
                    firedBurst, got, owed, lastRun, prevRun, faults, browse,
                    reading, clock >>

-----------------------------------------------------------------------------
(* I/O calls of the scan that fail although the disk has what they ask for  *)
(* (EACCES, EMFILE, EIO), part_000:149-153, 270-274, 281-286 and 167-188    *)

Fault(op, dir, name) == [scan |-> scanStarts, op |-> op, dir |-> dir, name |-> name]

\* part_000:272-274: the catch of readdir goes on with the next directory
SkipDirectory(sc) == NextDir(sc)

\* part_000:284-286: the catch of stat goes on with the next file
RethrowStat(sc) == [sc EXCEPT !.pc = "thrown"]
SkipFile(sc) == NextFile(sc)

\* part_000:149-153 and 261-268: readdir of the projects directory throws
ScanListFails ==
    /\ Quiet
    /\ scan.pc = "list"
    /\ LET sc == [scan EXCEPT !.projectDirs = << >>]
       IN IF WatchersOn(watchersEnabled)
          THEN /\ \E ok \in BOOLEAN :
                     projectsWatcher' = ensureProjectsWatcher(projectsWatcher, ok)
               /\ projectWatchers' = syncProjectWatchers(projectWatchers, { }, { })
               /\ Proceed(NextDir(sc))
          ELSE /\ UNCHANGED << projectsWatcher, projectWatchers >>
               /\ Proceed(NextDir(sc))
    /\ faults' = faults \cup { Fault("list", << >>, << >>) }
    /\ notified' = << >>
    /\ UNCHANGED << fs, fsVer, conversationListeners, refreshPromise, refreshTimer,
                    watchersEnabled, pendingTimers, scanStarts, waiters, subscriptions,
                    subscribeCalls, requests, events, burst, firedBurst, got, lastRun,
                    prevRun, load, browse, reading, clock >>

\* part_000:269-274: readdir of a project directory throws
ScanReaddirFails ==
    /\ Quiet
    /\ scan.pc = "readdir"
    /\ Proceed(SkipDirectory(scan))
    /\ faults' = faults \cup { Fault("readdir", scan.projectDirs[scan.di], << >>) }
    /\ notified' = << >>
    /\ UNCHANGED << fs, fsVer, projectWatchers, conversationListeners, projectsWatcher,
                    refreshPromise, refreshTimer, watchersEnabled, pendingTimers,
                    scanStarts, waiters, subscriptions, subscribeCalls, requests,
                    events, burst, firedBurst, got, lastRun, prevRun, load, browse,
                    reading, clock >>

\* part_000:281-286: stat of a session file throws
ScanStatFails ==
    /\ Quiet
    /\ scan.pc = "stat"
    /\ Proceed(SkipFile(scan))
    /\ faults' = faults \cup { Fault("stat", scan.projectDirs[scan.di],
                                     scan.files[scan.fi]) }
    /\ notified' = << >>
    /\ UNCHANGED << fs, fsVer, projectWatchers, conversationListeners, projectsWatcher,
                    refreshPromise, refreshTimer, watchersEnabled, pendingTimers,
                    scanStarts, waiters, subscriptions, subscribeCalls, requests,
                    events, burst, firedBurst, got, lastRun, prevRun, load, browse,
                    reading, clock >>

\* part_000:167-193 and 299-311: the read stream fails after some of the lines;
\* readSessionMetadata returns what it has found in them
ScanReadFails ==
    /\ Quiet
    /\ scan.pc = "read"
    /\ LET dir == scan.projectDirs[scan.di]
           name == scan.files[scan.fi]
           sessionId == SessionIdOf(name)
           filePath == PathJoin(PathJoin(PROJECTS_DIR, dir), name)
           onDisk == IF dir \in fs.dirs THEN fs.files[<< dir, name >>] ELSE NoFile
           lines == IF onDisk.exists THEN Transcript(onDisk.content) ELSE << >>
       IN \E k \in 0..Len(lines) :
             LET meta == readSessionMetadata(SubSeq(lines, 1, k))
                 entry == ExtractedEntry(conversationCache, sessionId, filePath,
                                         scan.stats, dir, meta)
             IN Proceed(NextFile(
                  [scan EXCEPT !.nextCache = MapSet(scan.nextCache, sessionId, entry)]))
    /\ faults' = faults \cup { Fault("read", scan.projectDirs[scan.di],
                                     scan.files[scan.fi]) }
    /\ notified' = << >>
    /\ UNCHANGED << fs, fsVer, projectWatchers, conversationListeners, projectsWatcher,
                    refreshPromise, refreshTimer, watchersEnabled, pendingTimers,
                    scanStarts, waiters, subscriptions, subscribeCalls, requests,
                    events, burst, firedBurst, got, lastRun, prevRun, load, browse,
                    reading, clock >>

-----------------------------------------------------------------------------
(* A listener whose callback throws, part_000:247-256 *)

\* part_000:251-255: the fan-out loop runs inside the try of
\* emitConversationUpdates; the listener at position k throws, the loop ends
\* there and the catch swallows the exception
ContinueEmitThrows ==
    /\ result # NoResult /\ ~refreshPromise
    /\ waiters # << >> /\ Head(waiters).kind = "emit"
    /\ EmitsWhen(result.changed)
    /\ Resume
    /\ \E k \in DOMAIN conversationListeners :
          LET invoked == SubSeq(conversationListeners, 1, k)
          IN /\ notified' = [i \in DOMAIN invoked |-> Delivery(invoked[i], "emit")]
             /\ got' = [l \in Listeners |->
                          IF l \in SeqToSet(invoked) THEN result.scan ELSE got[l]]
             /\ owed' = owed \ SeqToSet(invoked)
    /\ UNCHANGED << fs, fsVer, conversationCache, projectWatchers, conversationListeners,
                    projectsWatcher, refreshPromise, refreshTimer, lastSnapshotKey,
                    watchersEnabled, pendingTimers, scan, running, scanStarts,
                    subscriptions, subscribeCalls, requests, events, burst, firedBurst,
                    lastRun, prevRun, load, faults, browse, reading, clock >>

-----------------------------------------------------------------------------
(* One readSessionMetadata call, part_000:160-195, on a file given line by  *)
(* line                                                                     *)

ReadSessionMetadata ==
    /\ reading.pc = "open"
    /\ reading' = [reading EXCEPT !.pc = "closed",
                                  !.result = readSessionMetadata(reading.lines),
                                  !.taken = LinesTaken(reading.lines)]
    /\ UNCHANGED << fs, fsVer, conversationCache, projectWatchers, conversationListeners,
                    projectsWatcher, refreshPromise, refreshTimer, lastSnapshotKey,
                    watchersEnabled, pendingTimers, scan, running, scanStarts, waiters,
                    result, subscriptions, subscribeCalls, requests, events, burst,
                    firedBurst, notified, got, owed, lastRun, prevRun, load, faults,
                    browse, clock >>

-----------------------------------------------------------------------------
(* loadConversation once readJsonLines has returned the records of the      *)
(* file, part_000:402-439                                                   *)

LoadMessages ==
    /\ load.pc = "records"
    /\ load' = [load EXCEPT !.pc = "done",
                            !.outcome = MessagesLoop(load.records, << >>, "")]
    /\ UNCHANGED << fs, fsVer, conversationCache, projectWatchers, conversationListeners,
                    projectsWatcher, refreshPromise, refreshTimer, lastSnapshotKey,
                    watchersEnabled, pendingTimers, scan, running, scanStarts, waiters,
                    result, subscriptions, subscribeCalls, requests, events, burst,
                    firedBurst, notified, got, owed, lastRun, prevRun, faults, browse,
                    reading, clock >>

-----------------------------------------------------------------------------
(* Time.  The timer of part_000:241-244 is due DEBOUNCE_MS after the call   *)
(* of setTimeout; its callback runs once that time has come.                *)

\* d milliseconds pass; a pending timer lets time reach its deadline, not
\* pass it
Tick(d) ==
    /\ Quiet
    /\ pendingTimers > 0 => clock.now + d <= clock.deadline
    /\ clock' = [clock EXCEPT !.now = @ + d]
    /\ notified' = << >>
    /\ UNCHANGED << fs, fsVer, conversationCache, projectWatchers, conversationListeners,
                    projectsWatcher, refreshPromise, refreshTimer, lastSnapshotKey,
                    watchersEnabled, pendingTimers, scan, running, scanStarts, waiters,
                    result, subscriptions, subscribeCalls, requests, events, burst,
                    firedBurst, got, owed, lastRun, prevRun, load, faults, browse,
                    reading >>

\* the timer's callback runs when the timer is due
TimerDue == pendingTimers > 0 /\ clock.now >= clock.deadline

-----------------------------------------------------------------------------
(* The index under concurrent requests, watcher events and a writer *)

\* the disk the program starts on
EmptyFiles == [k \in DirNames \X FileNames |-> NoFile]
InitDisks ==
    { [dirs |-> { DirP }, files |->
          [EmptyFiles EXCEPT ![<< DirP, FileA >>] = File(1, 1, "plain")]] }

\* what the writer does to the disk
WriterFiles == { FileA }
WriterMTimes == { 2 }
WriterSizes == { 1 }
WriterContents == { "late" }

\* the module's state once it is loaded, but for the loadConversation call
InitIndex ==
    /\ fsVer = 0
    /\ conversationCache = << >>
    /\ projectWatchers = { }
    /\ conversationListeners = << >>
    /\ projectsWatcher = FALSE
    /\ refreshPromise = FALSE
    /\ refreshTimer = FALSE
    /\ lastSnapshotKey = << >>
    /\ watchersEnabled = FALSE
    /\ pendingTimers = 0
    /\ scan = IdleScan
    /\ running = 0
    /\ scanStarts = 0
    /\ waiters = << >>
    /\ result = NoResult
    /\ subscriptions = [l \in Listeners |-> 0]
    /\ subscribeCalls = 0
    /\ requests = 0
    /\ events = 0
    /\ burst = 0
    /\ firedBurst = 0
    /\ notified = << >>
    /\ got = [l \in Listeners |-> 0]
    /\ owed = { }
    /\ lastRun = NoRun
    /\ prevRun = NoRun
    /\ faults = { }
    /\ clock = StartClock

InitProgram ==
    /\ InitIndex
    /\ load = NoLoad

Init ==
    /\ fs \in InitDisks
    /\ InitProgram
    /\ browse = NoBrowse
    /\ reading = NoReading

ScanStep ==
    \/ ScanList
    \/ ScanReaddir
    \/ ScanStat
    \/ ScanRead

Reaction ==
    \/ Settle
    \/ ContinueEmit
    \/ ContinueWatch
    \/ ContinueList

Next ==
    \/ ScanStep
    \/ Reaction
    \/ subscribeCalls < MaxSubscribes /\ CanRefresh
         /\ \E l \in Listeners : WatchConversations(l)
    \/ \E l \in Listeners : Unsubscribe(l)
    \/ requests < MaxRequests /\ CanRefresh /\ ListConversations
    \/ events < MaxEvents /\ WatchEvent
    \/ CanRefresh /\ TimerFire
    \/ fsVer < MaxFsOps
         /\ \E n \in WriterFiles, m \in WriterMTimes, z \in WriterSizes,
               c \in WriterContents : FsWriteFile(DirP, n, m, z, c)
    \/ fsVer < MaxFsOps /\ \E n \in WriterFiles : FsRemoveFile(DirP, n)
    \/ fsVer < MaxFsOps /\ \E d \in DirNames : FsMakeDir(d)
    \/ fsVer < MaxFsOps /\ \E d \in DirNames : FsRemoveDir(d)

Spec == Init /\ [][Next]_vars

-----------------------------------------------------------------------------
(* The scan alone: listConversations calls over a disk the writer changes *)

ScanDisks ==
    { [dirs |-> { DirP }, files |->
          [EmptyFiles EXCEPT ![<< DirP, FileA >>] = File(1, 1, "plain"),
                             ![<< DirP, FileB >>] = File(3, 1, "late"),
                             ![<< DirP, FileC >>] = File(2, 2, "nocwd"),
                             ![<< DirP, Notes >>] = File(3, 1, "empty")]],
      [dirs |-> { DirP, DirQ }, files |->
          [EmptyFiles EXCEPT ![<< DirP, FileA >>] = File(2, 1, "plain"),
                             ![<< DirP, FileB >>] = File(2, 1, "nocwd"),
                             ![<< DirQ, FileA >>] = File(1, 1, "late")]] }

ScanWriterFiles == { FileA, FileB }
ScanWriterMTimes == { 1, 2 }
ScanWriterSizes == { 1, 2 }
ScanWriterContents == { "plain", "nocwd" }

InitScan ==
    /\ fs \in ScanDisks
    /\ InitProgram
    /\ browse = NoBrowse
    /\ reading = NoReading

NextScan ==
    \/ ScanStep
    \/ Settle
    \/ ContinueList
    \/ requests < MaxWalks /\ (refreshPromise \/ scanStarts < MaxWalks)
         /\ ListConversations
    \/ fsVer < MaxWrites
         /\ \E d \in DirNames, n \in ScanWriterFiles, m \in ScanWriterMTimes,
               z \in ScanWriterSizes, c \in ScanWriterContents :
               FsWriteFile(d, n, m, z, c)
    \/ fsVer < MaxWrites /\ \E d \in DirNames, n \in ScanWriterFiles : FsRemoveFile(d, n)
    \/ fsVer < MaxWrites /\ \E d \in DirNames : FsMakeDir(d)
    \/ fsVer < MaxWrites /\ \E d \in DirNames : FsRemoveDir(d)

SpecScan == InitScan /\ [][NextScan]_vars

-----------------------------------------------------------------------------
(* The directory browser over requested paths of every form *)

\* process.cwd()
WorkingDirs == { PathH, PathE }

\* CC_MOBILE_ROOT, or os.homedir() when it is not set
ConfiguredRoots == { PathRoot, PathHome, PathHome \o << Sep >>, << "u" >> }

\* part_000:41
ROOT_DIR(cwd, configured) == pathResolve(cwd, configured)

TreeDirs == { PathRoot, PathH, PathHome, PathD, PathHidden, PathSibling, PathE }
TreeWriterDirs == { PathD, PathHidden }

BrowseRequests ==
    { NoPath, SomePath(<< >>) }
    \cup { SomePath(p) : p \in
             { PathE, PathHome, PathHome \o << Sep >>, PathD, PathHidden, PathSibling,
               PathRoot, PathH,
               PathHome \o << Sep, ".", ".", Sep, "u", "-", "o" >>,
               PathD \o << Sep, ".", "." >>,
               PathD \o << Sep, ".", ".", Sep, ".", ".", Sep, ".", "." >>,
               PathD \o << Sep, "n" >>,
               << "u" >>, << "u", Sep, "d" >>, << ".", "." >>, << "." >>,
               << ".", ".", Sep, "e" >>, << "u", "-", "o" >> } }

InitBrowse ==
    /\ fs \in InitDisks
    /\ InitProgram
    /\ \E cwd \in WorkingDirs, configured \in ConfiguredRoots, showHidden \in BOOLEAN :
          browse = [pc |-> "idle", root |-> ROOT_DIR(cwd, configured), cwd |-> cwd,
                    showHidden |-> showHidden, dirs |-> TreeDirs, ops |-> 0,
                    requestPath |-> NoPath, basePath |-> << >>, listing |-> NoListing]
    /\ reading = NoReading

NextBrowse ==
    \/ \E requestPath \in BrowseRequests : ListDirectories(requestPath)
    \/ ListDirectoriesReturn
    \/ browse.ops < MaxTreeOps /\ \E d \in TreeWriterDirs : TreeMakeDir(d)
    \/ browse.ops < MaxTreeOps /\ \E d \in TreeWriterDirs : TreeRemoveDir(d)

SpecBrowse == InitBrowse /\ [][NextBrowse]_vars

-----------------------------------------------------------------------------
(* The session loader over session ids and project arguments of every form *)

LoadDisks ==
    { [dirs |-> { DirP, DirQ }, files |->
          [EmptyFiles EXCEPT ![<< DirP, FileA >>] = File(1, 1, "plain"),
                             ![<< DirP, FileB >>] = File(2, 1, "null"),
                             ![<< DirP, FileC >>] = File(3, 1, "odd"),
                             ![<< DirQ, FileA >>] = File(1, 2, "late")]] }

Traversal == << ".", ".", Sep, ".", ".", Sep, "h" >>

LoadSessionIds == { SidA, SidB, SidC, << "h" >>, Traversal }

LoadProjects ==
    { NoPath, SomePath(<< Sep, "p" >>), SomePath(<< "\\", "q" >>),
      SomePath(<< ".", "." >>) }

InitLoad ==
    /\ fs \in LoadDisks
    /\ InitProgram
    /\ browse = NoBrowse
    /\ reading = NoReading

NextLoad ==
    \/ ScanStep
    \/ Settle
    \/ ContinueLoad
    \/ requests < MaxLoads /\ (refreshPromise \/ scanStarts < MaxLoads)
         /\ \E sessionId \in LoadSessionIds, project \in LoadProjects :
               LoadConversation(sessionId, project)
    \/ (refreshPromise \/ scanStarts < MaxLoads) /\ LoadAccess
    \/ LoadRead
    \/ fsVer < MaxLoadWrites /\ \E d \in DirNames : FsRemoveFile(d, FileA)
    \/ fsVer < MaxLoadWrites /\ \E d \in DirNames : FsRemoveDir(d)

SpecLoad == InitLoad /\ [][NextLoad]_vars

-----------------------------------------------------------------------------
(* The scan under failing I/O calls *)

FaultDisks ==
    { [dirs |-> { DirP, DirQ }, files |->
          [EmptyFiles EXCEPT ![<< DirP, FileA >>] = File(1, 1, "plain"),
                             ![<< DirP, FileB >>] = File(2, 1, "late"),
                             ![<< DirQ, FileC >>] = File(3, 1, "nocwd")]] }

InitFaults ==
    /\ fs \in FaultDisks
    /\ InitProgram
    /\ browse = NoBrowse
    /\ reading = NoReading

NextFaults ==
    \/ ScanStep
    \/ Cardinality(faults) < MaxFaults /\ ScanListFails
    \/ Cardinality(faults) < MaxFaults /\ ScanReaddirFails
    \/ Cardinality(faults) < MaxFaults /\ ScanStatFails
    \/ Cardinality(faults) < MaxFaults /\ ScanReadFails
    \/ Settle
    \/ ContinueList
    \/ requests < MaxScans /\ CanRefresh /\ ListConversations
    \/ fsVer < MaxFsOps /\ \E d \in DirNames, n \in { FileA, FileC } : FsRemoveFile(d, n)

SpecFaults == InitFaults /\ [][NextFaults]_vars

-----------------------------------------------------------------------------
(* The fan-out with listeners that may throw *)

NextListeners ==
    \/ ScanStep
    \/ Settle
    \/ ContinueEmit
    \/ ContinueWatch
    \/ ContinueEmitThrows
    \/ subscribeCalls < MaxSubscribes /\ CanRefresh
         /\ \E l \in Listeners : WatchConversations(l)
    \/ \E l \in Listeners : Unsubscribe(l)
    \/ events < MaxEvents /\ WatchEvent
    \/ CanRefresh /\ TimerFire
    \/ fsVer < MaxFsOps
         /\ \E n \in WriterFiles, m \in WriterMTimes, z \in WriterSizes,
               c \in WriterContents : FsWriteFile(DirP, n, m, z, c)

SpecListeners == Init /\ [][NextListeners]_vars

-----------------------------------------------------------------------------
(* The metadata reader over files of every shape: a run of blank lines, of  *)
(* unparseable lines or of records without cwd and prompt, as long as the   *)
(* line limit or longer, then a few lines of any kind                       *)

Other == << "/", "v" >>
MetadataLines ==
    { BlankLine, BadLine,
      Rec("user", FALSE, Cwd(Work), StrContent(Hi)),
      Rec("user", FALSE, NoCwd, StrContent(<< "q" >>)),
      Rec("assistant", FALSE, Cwd(Other), StrContent(<< "o", "k" >>)),
      Rec("user", TRUE, Cwd(<< " " >>), StrContent(<< "m" >>)),
      Rec("user", FALSE, Cwd(Other), ListContent(<< Block("text", << "z" >>) >>)) }
RunLines == { BlankLine, BadLine, Rec("user", TRUE, Cwd(<< " " >>), StrContent(<< "m" >>)) }
RunLengths == { 0, MaxMetadataLines - 1, MaxMetadataLines, MaxMetadataLines + 1 }
Repeat(line, n) == [i \in 1 .. n |-> line]
Tails == UNION { [1 .. n -> MetadataLines] : n \in 0 .. MaxTailLines }
MetadataFiles == { Repeat(line, n) \o t : line \in RunLines, n \in RunLengths, t \in Tails }

InitMetadata ==
    /\ fs \in InitDisks
    /\ InitProgram
    /\ browse = NoBrowse
    /\ \E lines \in MetadataFiles :
          reading = [pc |-> "open", lines |-> lines,
                     result |-> [project |-> << >>, firstPrompt |-> << >>], taken |-> 0]

NextMetadata == ReadSessionMetadata

SpecMetadata == InitMetadata /\ [][NextMetadata]_vars

-----------------------------------------------------------------------------
(* The loader's loop over records of every shape *)

ToolResult == Block("tool_result", << "r" >>)
LoadRecords ==
    { Rec("user", FALSE, NoCwd, StrContent(Hi)),
      Rec("assistant", FALSE, NoCwd, StrContent(<< "o", "k" >>)),
      Rec("user", TRUE, NoCwd, ListContent(<< ToolResult >>)),
      Rec("user", FALSE, NoCwd, ListContent(<< ToolResult, Block("text", << "y" >>) >>)),
      Rec("assistant", FALSE, NoCwd,
          ListContent(<< Block("thinking", << "z" >>), Block("tool_use", << "u" >>) >>)),
      Rec("user", FALSE, NoCwd, ListContent(<< StringItem(<< "s" >>) >>)),
      Record("user", FALSE, NoCwd,
             Message("assistant", "m3", ListContent(<< ToolResult, ToolResult >>))),
      Record("assistant", FALSE, NoCwd, Message("user", "", StrContent(<< "x" >>))),
      Rec("user", FALSE, NoCwd, NoContent),
      Rec("user", FALSE, NoCwd, StrContent(<< >>)),
      Rec("user", FALSE, NoCwd, ListContent(<< >>)),
      Rec("assistant", FALSE, NoCwd, ObjContent),
      Record("user", FALSE, NoCwd, NoMessage),
      Record("user", FALSE, NoCwd, Message("", "", StrContent(Hi))),
      Record("summary", FALSE, NoCwd, Message("user", "", StrContent(Hi))),
      Rec("user", FALSE, NoCwd, ListContent(<< NullBlock, Block("text", << "t" >>) >>)) }
RecordLists == UNION { [1 .. n -> LoadRecords] : n \in 0 .. MaxRecords }

InitMessages ==
    /\ fs \in InitDisks
    /\ InitIndex
    /\ browse = NoBrowse
    /\ reading = NoReading
    /\ \E records \in RecordLists :
          load = [pc |-> "records", records |-> records, outcome |-> NoOutcome]

NextMessages == LoadMessages

SpecMessages == InitMessages /\ [][NextMessages]_vars

-----------------------------------------------------------------------------
(* Readers of the cache while scans run: loadConversation calls that look   *)
(* a session up, listConversations calls that start the scans, and a writer *)

ReaderDisks ==
    { [dirs |-> { DirP }, files |->
          [EmptyFiles EXCEPT ![<< DirP, FileA >>] = File(1, 1, "plain"),
                             ![<< DirP, FileB >>] = File(2, 1, "late")]] }
ReaderSessionIds == { SidA, SidB, SidC }
ReaderProjects == { NoPath, SomePath(<< Sep, "p" >>) }

InitReaders ==
    /\ fs \in ReaderDisks
    /\ InitProgram
    /\ browse = NoBrowse
    /\ reading = NoReading

NextReaders ==
    \/ ScanStep
    \/ Settle
    \/ ContinueList
    \/ ContinueLoad
    \/ requests < MaxReaders /\ (refreshPromise \/ scanStarts < MaxLoads)
         /\ ListConversations
    \/ requests < MaxReaders /\ (refreshPromise \/ scanStarts < MaxLoads)
         /\ \E sessionId \in ReaderSessionIds, project \in ReaderProjects :
               LoadConversation(sessionId, project)
    \/ (refreshPromise \/ scanStarts < MaxLoads) /\ LoadAccess
    \/ LoadRead
    \/ fsVer < MaxLoadWrites /\ FsWriteFile(DirP, FileC, 3, 1, "nocwd")
    \/ fsVer < MaxLoadWrites /\ FsRemoveFile(DirP, FileB)

SpecReaders == InitReaders /\ [][NextReaders]_vars

-----------------------------------------------------------------------------
(* The debounce timer in time: one listener, watcher callbacks 50 or 100 ms *)
(* apart, and the timer's callback run when it is due                       *)

Elapses == { 50, 100 }

NextDebounce ==
    \/ ScanStep
    \/ Settle
    \/ ContinueEmit
    \/ ContinueWatch
    \/ subscribeCalls < 1 /\ WatchConversations("l1")
    \/ events < MaxBurst /\ WatchEvent
    \/ \E d \in Elapses : clock.now + d <= MaxTime /\ Tick(d)
    \/ TimerDue /\ CanRefresh /\ TimerFire

SpecDebounce == Init /\ [][NextDebounce]_vars

-----------------------------------------------------------------------------
(* A subscriber, changes of the disk, and the watch events that follow them *)

\* the writer stops before the first watch event is delivered, so every event
\* arrives after the last change of the disk
NextLastChange ==
    \/ ScanStep
    \/ Settle
    \/ ContinueEmit
    \/ ContinueWatch
    \/ subscribeCalls < MaxSubscribes /\ CanRefresh
         /\ \E l \in Listeners : WatchConversations(l)
    \/ events < MaxEvents /\ WatchEvent
    \/ CanRefresh /\ TimerFire
    \/ events = 0 /\ fsVer < MaxFsOps
         /\ \E n \in WriterFiles, m \in WriterMTimes, z \in WriterSizes,
               c \in WriterContents : FsWriteFile(DirP, n, m, z, c)
    \/ events = 0 /\ fsVer < MaxFsOps /\ \E n \in WriterFiles : FsRemoveFile(DirP, n)

SpecLastChange == Init /\ [][NextLastChange]_vars

-----------------------------------------------------------------------------
(* The fingerprint: listConversations calls over transcripts that are        *)
(* rewritten with another prompt or project and, at times, the same mtime    *)

FingerprintContents == { "plain", "long1", "long2", "long3", "colon1", "colon2" }
FingerprintDisks ==
    { [dirs |-> { DirP }, files |->
          [EmptyFiles EXCEPT ![<< DirP, FileA >>] = File(1, 1, c),
                             ![<< DirP, FileB >>] = File(2, 1, "plain")]] :
        c \in FingerprintContents }
FingerprintMTimes == { 1, 3 }
FingerprintSizes == { 1, 2 }

InitFingerprint ==
    /\ fs \in FingerprintDisks
    /\ InitProgram
    /\ browse = NoBrowse
    /\ reading = NoReading

NextFingerprint ==
    \/ ScanStep
    \/ Settle
    \/ ContinueList
    \/ requests < MaxWalks /\ ~refreshPromise /\ scanStarts < MaxWalks
         /\ ListConversations
    \/ fsVer < MaxWrites /\ ~refreshPromise
         /\ \E m \in FingerprintMTimes, z \in FingerprintSizes,
               c \in FingerprintContents : FsWriteFile(DirP, FileA, m, z, c)

SpecFingerprint == InitFingerprint /\ [][NextFingerprint]_vars

-----------------------------------------------------------------------------
(* The index under the event loop's scheduling: an I/O call that is awaited  *)
(* completes, and the reactions of a settled promise are run                 *)

NextLive ==
    \/ ScanStep
    \/ Cardinality(faults) < MaxLiveFaults /\ ScanListFails
    \/ Cardinality(faults) < MaxLiveFaults /\ ScanReaddirFails
    \/ Cardinality(faults) < MaxLiveFaults /\ ScanStatFails
    \/ Cardinality(faults) < MaxLiveFaults /\ ScanReadFails
    \/ Reaction
    \/ subscribeCalls < MaxSubscribes /\ CanRefresh
         /\ \E l \in Listeners : WatchConversations(l)
    \/ \E l \in Listeners : Unsubscribe(l)
    \/ requests < MaxRequests /\ CanRefresh /\ ListConversations
    \/ events < MaxLiveEvents /\ WatchEvent
    \/ CanRefresh /\ TimerFire

\* the scan is at an await, and no reaction is left to run before its I/O call
\* completes
ScanPending == Quiet /\ scan.pc # "idle"

\* the I/O call completes, with a result or with an error, and the scan goes on
ScanAdvances == ScanPending /\ scan' # scan

\* WF_vars(ScanAdvances), written with ENABLED << ScanAdvances >>_vars as the
\* state predicate it equals, ScanPending
FairScan == []<>~ScanPending \/ []<><< ScanAdvances >>_vars

\* libuv completes every pending I/O call, and Node runs the microtask queue
\* to its end before it takes the next task
Fairness ==
    /\ FairScan
    /\ WF_vars(Settle)
    /\ WF_vars(ContinueEmit)
    /\ WF_vars(ContinueWatch)
    /\ WF_vars(ContinueList)

SpecLive == Init /\ [][NextLive]_vars /\ Fairness

-----------------------------------------------------------------------------
(* Properties *)

\* nothing is running, queued or scheduled
Quiescent == Quiet /\ ~refreshPromise /\ scan.pc = "idle" /\ pendingTimers = 0

SnapshotOf(cache) == SortSummaries(Summaries(cache))

SessionsOnDisk(disk) ==
    { SessionIdOf(n) : n \in { f \in FileNames :
         EndsWith(f, JsonlSuffix) /\ \E d \in disk.dirs : disk.files[<< d, f >>].exists } }

\* C1: at most one scan body runs at a time, and every caller that is waiting
\* for a refresh waits for the one walk now in flight (the walk counter has not
\* moved since it called), whose result is the one it resumes with.
C1_OneScanSharedByCallers ==
    /\ running <= 1
    /\ \A i \in DOMAIN waiters : waiters[i].scan = scanStarts
    /\ result # NoResult => result.scan = scanStarts

C1_Witness ==
    /\ Len(waiters) >= 2
    /\ scan.pc = "stat"
    /\ \A i \in DOMAIN waiters : waiters[i].scan = 1

\* C2: once nothing is running, queued or scheduled, no registered listener is
\* still owed a changed snapshot that was committed while it was registered.
C2_ChangedSnapshotReachesListeners == Quiescent => owed = { }

\* C3 as stated: a listener is invoked only with the result of a refresh that
\* reported changed = TRUE.
C3_InvokedOnlyWhenChanged == \A i \in DOMAIN notified : notified[i].changed

\* C3: a listener is invoked only once the scan body has ended, with the
\* snapshot whose fingerprint is the committed one; the fan-out of a timer-fired
\* refresh invokes listeners only when changed = TRUE, and an invocation with
\* changed = FALSE is the initial delivery of a watchConversations call.
C3_InvokedAfterCommit ==
    \A i \in DOMAIN notified :
        /\ scan.pc = "idle"
        /\ buildSnapshotKey(notified[i].conversations) = lastSnapshotKey
        /\ notified[i].via = "emit" => notified[i].changed
        /\ ~notified[i].changed => notified[i].via = "watch"

C3_Witness ==
    /\ Len(notified) = 2
    /\ notified[1].via = "emit"
    /\ notified[1].scan = 2

\* C4: every snapshot handed to a listener is the sorted summary projection of
\* the cache as the latest completed scan committed it, and the scans whose
\* snapshots one listener is handed never go backwards.
C4_CommittedSnapshotsInOrder ==
    /\ [](\A i \in DOMAIN notified :
            /\ notified[i].conversations = SnapshotOf(conversationCache)
            /\ notified[i].scan = scanStarts
            /\ running = 0)
    /\ [][\A l \in Listeners : got'[l] >= got[l]]_vars

C4_Witness ==
    /\ notified # << >>
    /\ notified[1].scan = 2
    /\ got[notified[1].to] = 2
    /\ Len(notified[1].conversations) >= 1

\* C5: when the debounce timer fires for a burst of n >= 1 watcher callbacks,
\* with a listener registered and no refresh in flight, exactly one walk starts
\* and no timer of the burst is left to start another; the callbacks themselves
\* start none.
C5_BurstStartsOneScan ==
    /\ [][(/\ pendingTimers' < pendingTimers
           /\ burst >= 1
           /\ Len(conversationListeners) > 0
           /\ ~refreshPromise)
          => (/\ scanStarts' = scanStarts + 1
              /\ running' = 1
              /\ pendingTimers' = 0)]_vars
    /\ [][events' # events => scanStarts' = scanStarts]_vars

C5_Witness ==
    /\ firedBurst = 2
    /\ scan.pc = "list"
    /\ Len(waiters) = 1
    /\ waiters[1].kind = "emit"
    /\ Len(conversationListeners) > 0

\* C6: with no listener registered, no watcher is open.
C6_NoListenerNoWatcher ==
    conversationListeners = << >> => (~projectsWatcher /\ projectWatchers = { })

C6_Witness ==
    /\ conversationListeners = << >>
    /\ result # NoResult
    /\ waiters # << >>
    /\ Head(waiters).kind = "watch"
    /\ Len(result.conversations) >= 1

\* C7: with no listener registered, no debounce timer is pending.
C7_NoListenerNoTimer ==
    conversationListeners = << >> => (pendingTimers = 0 /\ ~refreshTimer)

\* C8: when the disk did not change from the start of the scan behind one
\* listConversations call to the end of the scan behind the next, the second call
\* returns the same snapshot and changed = FALSE.
C8_Idempotent ==
    (/\ prevRun # NoRun
     /\ lastRun # NoRun
     /\ prevRun.startVer = lastRun.endVer)
    => (/\ lastRun.conversations = prevRun.conversations
        /\ ~lastRun.changed)

C8_Witness ==
    /\ prevRun # NoRun
    /\ lastRun # NoRun
    /\ prevRun.startVer = lastRun.endVer
    /\ Len(lastRun.conversations) >= 2
    /\ prevRun.changed

\* C9: once a scan has committed, the cache holds exactly the session ids the
\* scan stat'ed, and so does its snapshot; when the disk has not changed since
\* the scan started, these are exactly the sessions with a *.jsonl file on disk.
C9_CacheIsWhatTheScanSaw ==
    result # NoResult =>
        /\ MapKeys(conversationCache) = { result.seen[i][2] : i \in DOMAIN result.seen }
        /\ { result.conversations[i].sessionId : i \in DOMAIN result.conversations }
             = MapKeys(conversationCache)
        /\ Len(result.conversations) = Len(conversationCache)
        /\ result.startVer = fsVer => MapKeys(conversationCache) = SessionsOnDisk(fs)

C9_Witness ==
    /\ lastRun # NoRun
    /\ result # NoResult
    /\ result.scan > lastRun.scan
    /\ result.startVer = fsVer
    /\ \E i \in DOMAIN lastRun.conversations :
          lastRun.conversations[i].sessionId \notin MapKeys(conversationCache)
    /\ conversationCache # << >>

\* C10: every snapshot a scan returns is ordered by updatedAt descending, and two
\* sessions that tie in the snapshots of two successive listConversations calls
\* whose scans stat'ed the same files in the same order keep their relative order.
Position(conversations, sessionId) ==
    CHOOSE i \in DOMAIN conversations : conversations[i].sessionId = sessionId

Tied(conversations, x, y) ==
    conversations[Position(conversations, x)].updatedAt
        = conversations[Position(conversations, y)].updatedAt

Ids(conversations) == { conversations[i].sessionId : i \in DOMAIN conversations }

C10_DescendingAndStable ==
    /\ result # NoResult =>
          \A i \in 1 .. Len(result.conversations) - 1 :
              result.conversations[i].updatedAt >= result.conversations[i + 1].updatedAt
    /\ (prevRun # NoRun /\ lastRun # NoRun /\ prevRun.seen = lastRun.seen) =>
          \A x, y \in Ids(lastRun.conversations) :
             (/\ Tied(lastRun.conversations, x, y)
              /\ Tied(prevRun.conversations, x, y))
             => (Position(lastRun.conversations, x) < Position(lastRun.conversations, y)
                 <=> Position(prevRun.conversations, x)
                       < Position(prevRun.conversations, y))

\* the ordering example: the files list as mtime 1, 3, 2 and return as 3, 2, 1
C10_Witness ==
    /\ result # NoResult
    /\ Len(result.conversations) = 3
    /\ result.conversations[1].updatedAt = 3
    /\ result.conversations[2].updatedAt = 2
    /\ result.conversations[3].updatedAt = 1
    /\ result.seen[1][2] = result.conversations[3].sessionId

\* a tie kept across two scans that returned different snapshots
C10_TieWitness ==
    /\ prevRun # NoRun
    /\ lastRun # NoRun
    /\ prevRun.seen = lastRun.seen
    /\ prevRun.conversations # lastRun.conversations
    /\ \E x, y \in Ids(lastRun.conversations) :
          /\ x # y
          /\ Tied(lastRun.conversations, x, y)
          /\ Tied(prevRun.conversations, x, y)


\* the segments of a path string
SegmentsOf(p) == NormalizeSegments(SplitPath(p), << >>)

IsPrefixSeq(a, b) == Len(a) <= Len(b) /\ SubSeq(b, 1, Len(a)) = a

\* p is root, or a path below it
WithinRoot(p, root) == IsPrefixSeq(SegmentsOf(root), SegmentsOf(p))

\* the request names a path that resolves to a place outside the root
ResolvesOutside(b) ==
    /\ b.requestPath.has /\ b.requestPath.s # << >>
    /\ ~WithinRoot(pathResolve(b.cwd, b.requestPath.s), b.root)

\* C11: whatever path is requested, listDirectories returns (it never throws)
\* a listing whose path is the root or a path below it; for a request that
\* resolves outside the root the listing is the one a request with no path
\* gets from the same tree, and its parent is null.
C11_ListingStaysWithinRoot ==
    [][browse.pc = "readdir" /\ browse'.pc = "done" =>
          /\ browse'.listing.returned
          /\ WithinRoot(browse'.listing.path, browse.root)
          /\ ResolvesOutside(browse) =>
                /\ browse'.listing =
                      DirectoryListing(browse.dirs, browse.root, browse.showHidden,
                                       BasePath(browse.root, browse.cwd, NoPath))
                /\ browse'.listing.parent = NoPath]_vars

\* a request for the sibling whose name has the root's name as a string prefix
\* was answered with the root's listing
C11_Witness ==
    /\ browse.pc = "done"
    /\ browse.root = PathHome
    /\ browse.requestPath = SomePath(PathSibling)
    /\ PathSibling \in browse.dirs
    /\ browse.listing.path = PathHome
    /\ browse.listing.entries # << >>

\* C12: in every listing, parent is null exactly when the path is the root;
\* otherwise parent is the path without its last segment, and lies within the
\* root.
C12_ParentNullOnlyAtRoot ==
    browse.pc = "done" =>
        LET l == browse.listing
        IN /\ l.parent = NoPath <=> l.path = browse.root
           /\ l.parent # NoPath =>
                /\ l.parent.has
                /\ SegmentsOf(l.path) # << >>
                /\ SegmentsOf(l.parent.s) =
                      SubSeq(SegmentsOf(l.path), 1, Len(SegmentsOf(l.path)) - 1)
                /\ WithinRoot(l.parent.s, browse.root)

\* a listing two levels below the root: its parent is not the root
C12_Witness ==
    /\ browse.pc = "done"
    /\ browse.listing.parent.has
    /\ browse.listing.parent.s # browse.root
    /\ browse.root # PathRoot

\* the path names something under the projects directory
InsideProjects(filePath) ==
    /\ Len(filePath) > Len(PROJECTS_DIR)
    /\ SubSeq(filePath, 1, Len(PROJECTS_DIR)) = PROJECTS_DIR

\* C13: the file path that resolveSessionFile returns, and loadConversation
\* then reads, is a path inside the projects directory, whatever sessionId
\* and project are.
C13_ResolvedPathInsideProjects ==
    load.pc \in { "read", "done" } /\ load.filePath.has =>
        InsideProjects(load.filePath.s)

\* a step of the call in which the file of the project argument is looked for
\* and, if it is not there, the cache is asked
DecidesOnCandidate == load.pc = "access" /\ load'.pc # "access"

\* a step of the call in which the cache is asked
DecidesOnCache ==
    \/ DecidesOnCandidate /\ ~fileExists(fs, load.candidate.s)
    \/ load.pc \in { "idle", "done" } /\ load'.pc \in { "read", "refresh" }

\* C14: resolution takes the file of the project argument when that file
\* exists, otherwise the cached path of the session id, otherwise what one
\* refresh finds; a call asks for a refresh at most once and never after it
\* has resumed from one, and a call for which nothing resolves returns no
\* messages and a null model.
C14_ResolutionOrder ==
    [][/\ DecidesOnCandidate /\ fileExists(fs, load.candidate.s) =>
            /\ load'.pc = "read"
            /\ load'.filePath = load.candidate
            /\ waiters' = waiters
       /\ DecidesOnCache /\ MapHas(conversationCache, load'.sessionId) =>
            /\ load'.pc = "read"
            /\ load'.filePath =
                  SomePath(MapGet(conversationCache, load'.sessionId).filePath)
            /\ waiters' = waiters
       /\ DecidesOnCache /\ ~MapHas(conversationCache, load'.sessionId) =>
            /\ load'.pc = "refresh"
            /\ Len(waiters') = Len(waiters) + 1
       /\ load.pc = "refresh" /\ load'.pc # "refresh" =>
            /\ waiters' = Tail(waiters)
            /\ scanStarts' = scanStarts
            /\ IF MapHas(conversationCache, load.sessionId)
               THEN /\ load'.pc = "read"
                    /\ load'.filePath =
                          SomePath(MapGet(conversationCache, load.sessionId).filePath)
               ELSE /\ load'.pc = "done"
                    /\ load'.outcome = Returned(<< >>, "")
       /\ load'.pc # "idle" => load'.refreshes <= 1]_vars

\* the project argument names a file that exists while the cache holds another
\* path for the same session id, and the call took the file of the project
C14_Witness ==
    /\ load.pc = "read"
    /\ load.how = "project"
    /\ MapHas(conversationCache, load.sessionId)
    /\ MapGet(conversationCache, load.sessionId).filePath # load.filePath.s

\* nothing resolved after the refresh, and the call returned no messages
C14_NothingResolves ==
    /\ load.pc = "done"
    /\ load.refreshes = 1
    /\ ~load.filePath.has
    /\ load.outcome = Returned(<< >>, "")

\* C15: a path taken from the cache is the path of a file that exists at the
\* time it is taken.
C15_CachedPathVerified ==
    [][load.pc # "read" /\ load'.pc = "read" /\ load'.how = "cache" =>
          fileExists(fs, load'.filePath.s)]_vars

\* C17: loadConversation returns messages whatever the shapes of the lines and
\* records of the transcript; it never rejects.
C17_LoadNeverRejects ==
    load.pc = "done" => load.outcome.status = "returned"

\* the I/O calls of scan n that failed
FaultsOf(n) == { f \in faults : f.scan = n }

\* the sessions of the disk whose directory scan n listed and whose file it
\* stat'ed without a failure
SessionsReached(n) ==
    { SessionIdOf(name) : name \in { f \in FileNames :
         /\ EndsWith(f, JsonlSuffix)
         /\ \E d \in fs.dirs :
               /\ fs.files[<< d, f >>].exists
               /\ \A x \in FaultsOf(n) :
                     /\ x.op # "list"
                     /\ ~(x.op = "readdir" /\ x.dir = d)
                     /\ ~(x.op = "stat" /\ x.dir = d /\ x.name = f) } }

\* C16: whichever of its I/O calls fail, the scan body never throws, and it
\* commits: over a disk that did not change meanwhile, the snapshot it
\* resolves with holds every session of every directory and file whose
\* listing and stat did not fail (a file whose metadata read failed included).
C16_ScanSurvivesFaults ==
    /\ scan.pc \in { "idle", "list", "readdir", "stat", "read" }
    /\ result # NoResult /\ result.startVer = result.endVer =>
          { result.conversations[i].sessionId : i \in DOMAIN result.conversations }
              = SessionsReached(result.scan)

\* a scan committed the other sessions after a readdir and a stat of it failed
C16_Witness ==
    /\ result # NoResult
    /\ result.startVer = result.endVer
    /\ \E f \in FaultsOf(result.scan) : f.op = "stat"
    /\ \E f \in FaultsOf(result.scan) : f.op = "readdir"
    /\ result.conversations # << >>

\* C18: the fan-out of a changed refresh invokes every listener that is
\* registered when it runs, whatever the callbacks of the other listeners do.
C18_FanOutReachesEveryListener ==
    notified # << >> /\ notified[1].via = "emit" =>
        SeqToSet(conversationListeners) \subseteq { notified[i].to : i \in DOMAIN notified }

\* C19: when a scan has committed and a listener is registered, the watched
\* project directories are the directories the scan listed, less those whose
\* fs.watch failed in its resync.
C19_WatchesMatchListedDirectories ==
    result # NoResult /\ conversationListeners # << >> =>
        projectWatchers = SeqToSet(result.projectDirs) \ result.failed

\* C20 as stated: after a scan, not the first, that started once the last
\* session file of the initial project directory had been removed, that
\* directory is not watched.
C20_EmptiedDirectoryUnwatched ==
    /\ result # NoResult
    /\ result.scan > 1
    /\ result.startVer = fsVer
    /\ DirP \in fs.dirs
    /\ ListSessionFiles(fs, DirP) = << >>
    => DirP \notin projectWatchers

\* C20: the resync of a scan that runs with watches enabled closes the
\* watchers of the project directories that are gone from the listing, and
\* keeps the watcher of every directory that is still listed, whether or not
\* it holds a session file.
C20_GoneDirectoriesUnwatched ==
    [][scan.pc = "list" /\ scan'.pc # "list" /\ watchersEnabled =>
          /\ projectWatchers' \subseteq fs.dirs
          /\ projectWatchers \cap fs.dirs \subseteq projectWatchers']_vars

\* the project directory was removed, a watcher event followed, and the scan
\* after it left no directory watched while a listener is registered
C20_Witness ==
    /\ fsVer > 0
    /\ DirP \notin fs.dirs
    /\ events > 0
    /\ result # NoResult
    /\ result.startVer = fsVer
    /\ result.scan > 1
    /\ conversationListeners # << >>
    /\ watchersEnabled
    /\ projectWatchers = { }


\* both fields are known once the first k lines of the file have been handled
BothKnown(lines, k) ==
    LET found == readSessionMetadata(SubSeq(lines, 1, k))
    IN found.project # << >> /\ found.firstPrompt # << >>

\* the files that begin with the first k lines of the file and go on otherwise
Rewritten(lines, k) == { SubSeq(lines, 1, k) \o t : t \in Tails }

\* C21: once a line leaves both project and firstPrompt known, the call stops
\* at it, no earlier line did so, and the result is the same for every file
\* that agrees with this one up to that line, however it continues (with
\* malformed lines too): the same fields, after the same number of lines.
C21_EarlyExit ==
    reading.pc = "closed" /\ reading.result.project # << >>
                          /\ reading.result.firstPrompt # << >> =>
        /\ BothKnown(reading.lines, reading.taken)
        /\ \A j \in 0 .. reading.taken - 1 : ~BothKnown(reading.lines, j)
        /\ \A other \in Rewritten(reading.lines, reading.taken) :
              /\ readSessionMetadata(other) = reading.result
              /\ LinesTaken(other) = reading.taken

\* a call that stopped with lines left, the next of them a record that would
\* have given another project and prompt
C21_Witness ==
    /\ reading.pc = "closed"
    /\ reading.result = [project |-> Work, firstPrompt |-> Hi]
    /\ reading.taken > MaxMetadataLines
    /\ reading.taken < Len(reading.lines)
    /\ reading.lines[reading.taken + 1].kind = "rec"
    /\ reading.lines[reading.taken + 1].cwd = Cwd(Other)

\* C22: whatever the file holds, the call takes no more lines from it than
\* the line limit before it stops.
C22_LinesTakenBounded ==
    reading.pc = "closed" => reading.taken <= MaxMetadataLines


\* a record the loader is to make a message of: a user or assistant record
\* whose message has a role and a content that is a non-empty string or a
\* non-empty list
Qualifies(record) ==
    /\ record.type \in { "user", "assistant" }
    /\ record.hasMessage
    /\ record.role # ""
    /\ \/ record.content.tag = "str" /\ record.content.s # << >>
       \/ record.content.tag = "list" /\ record.content.blocks # << >>
Qualifying(records) == SelectSeq(records, Qualifies)

AllToolResults(blocks) == \A i \in DOMAIN blocks : blocks[i].type = "tool_result"

\* C23: the role of every returned message is "tool" exactly when all its
\* blocks are tool_result blocks, and otherwise it is the role of the message
\* of the record it was made from (also when tool_result and other blocks mix,
\* and when the record's type differs from that role).
C23_RoleToolIffAllToolResults ==
    load.pc = "done" /\ load.outcome.status = "returned" =>
        LET messages == load.outcome.messages
            from == Qualifying(load.records)
        IN /\ Len(messages) = Len(from)
           /\ \A i \in DOMAIN messages :
                 /\ messages[i].role = "tool" <=> AllToolResults(messages[i].blocks)
                 /\ ~AllToolResults(messages[i].blocks) =>
                       messages[i].role = from[i].role

\* a tool message, a message whose blocks mix tool_result and text, and a
\* message whose role is not its record's type, returned together
C23_Witness ==
    /\ load.pc = "done"
    /\ load.outcome.status = "returned"
    /\ Len(load.outcome.messages) = 3
    /\ \E i, j, k \in 1 .. 3 :
          LET m == load.outcome.messages
          IN /\ m[i].role = "tool" /\ Len(m[i].blocks) = 2
             /\ m[j].role = "user" /\ m[j].blocks[1].type = "tool_result"
             /\ m[k].role = "user" /\ Qualifying(load.records)[k].type = "assistant"

\* C24: the call returns one message for each record that qualifies, in the
\* order of the file, with that record's blocks, none of them with an empty
\* block list; records with absent, empty or non-list non-string content
\* give none.
C24_OneMessagePerRecord ==
    load.pc = "done" =>
        /\ load.outcome.status = "returned"
        /\ LET messages == load.outcome.messages
               from == Qualifying(load.records)
           IN /\ Len(messages) = Len(from)
              /\ \A i \in DOMAIN messages :
                    /\ messages[i].blocks # << >>
                    /\ messages[i].blocks = normalizeBlocks(from[i].content)
                    /\ messages[i].isMeta = from[i].isMeta


\* the file the scan is at (being stat'ed, or being read), as the disk has it
ScanDir == scan.projectDirs[scan.di]
ScanName == scan.files[scan.fi]
ScanFile == IF ScanDir \in fs.dirs THEN fs.files[<< ScanDir, ScanName >>] ELSE NoFile
ScanPath == PROJECTS_DIR \o << ScanDir, ScanName >>

\* the committed cache has an entry for the file's session id with the file's
\* path, mtime and size
CachedUnchanged ==
    \E i \in DOMAIN conversationCache :
        /\ conversationCache[i].sessionId = SessionIdOf(ScanName)
        /\ conversationCache[i].filePath = ScanPath
        /\ conversationCache[i].mtimeMs = ScanFile.mtimeMs
        /\ conversationCache[i].size = ScanFile.size

\* the map the scan is building, which is the cache once it has committed
Built == IF scan.pc = "idle" THEN conversationCache ELSE scan.nextCache
EntryFor(m, sessionId) == m[CHOOSE i \in DOMAIN m : m[i].sessionId = sessionId]

\* C25: when the scan has the stat of a file, it goes on to read the file
\* unless the committed cache has an entry for that session id with the same
\* path, mtime and size; then it reads nothing and takes project and
\* firstPrompt from that entry.
C25_ReuseIffUnchanged ==
    [][scan.pc = "stat" /\ scan' # scan /\ ScanFile.exists =>
          IF CachedUnchanged
          THEN /\ scan'.pc # "read"
               /\ LET old == EntryFor(conversationCache, SessionIdOf(ScanName))
                      new == EntryFor(Built', SessionIdOf(ScanName))
                  IN new.project = old.project /\ new.firstPrompt = old.firstPrompt
          ELSE scan'.pc = "read"]_vars

\* the scan is about to read again a file of which only the mtime has changed:
\* the cache has its path and size, and the prompt its lines still give
C25_Witness ==
    /\ scan.pc = "read"
    /\ ScanFile.exists
    /\ \E i \in DOMAIN conversationCache :
          /\ conversationCache[i].sessionId = SessionIdOf(ScanName)
          /\ conversationCache[i].filePath = ScanPath
          /\ conversationCache[i].size = scan.stats.size
          /\ conversationCache[i].mtimeMs # scan.stats.mtimeMs
          /\ conversationCache[i].firstPrompt =
                readSessionMetadata(Transcript(ScanFile.content)).firstPrompt

\* C26: the entry the scan sets for a file has as updatedAt the mtime that
\* the stat of the file returned, whether it reuses the cached entry or reads
\* the file (whatever the file holds by then), and in every entry of the
\* committed cache updatedAt is the entry's mtimeMs.
C26_UpdatedAtIsStatMtime ==
    [][/\ scan.pc = "stat" /\ scan' # scan /\ ScanFile.exists =>
             IF scan'.pc = "read"
             THEN scan'.stats.mtimeMs = ScanFile.mtimeMs
             ELSE EntryFor(Built', SessionIdOf(ScanName)).updatedAt = ScanFile.mtimeMs
       /\ scan.pc = "read" /\ scan' # scan =>
             EntryFor(Built', SessionIdOf(ScanName)).updatedAt = scan.stats.mtimeMs
       /\ \A i \in DOMAIN conversationCache' :
             conversationCache'[i].updatedAt = conversationCache'[i].mtimeMs]_vars

\* a second scan has committed: one file was rewritten with a later mtime and
\* read again, the others were reused
C26_Witness ==
    /\ Quiescent
    /\ scanStarts = 2
    /\ MapKeys(conversationCache) = { SidA, SidB, SidC }
    /\ fs.files[<< DirP, FileA >>].exists
    /\ fs.files[<< DirP, FileA >>].mtimeMs = 2
    /\ EntryFor(conversationCache, SidA).updatedAt = 2
    /\ EntryFor(conversationCache, SidB).updatedAt = 3
    /\ EntryFor(conversationCache, SidC).updatedAt = 2


\* C27: the shared cache changes only in the step that ends a scan, and then
\* to the whole map that scan built; until then a loadConversation call that
\* looks its session up finds what the previous scan committed: the path of
\* the committed entry, or no entry and so a refresh, whatever the scan in
\* progress has set so far.
C27_CacheSwappedAtCommit ==
    [][/\ conversationCache' # conversationCache =>
             /\ scan.pc # "idle" /\ scan'.pc = "idle"
             /\ result = NoResult /\ result' # NoResult
             /\ SnapshotOf(conversationCache') = result'.conversations
       /\ load' # load /\ load'.pc = "read" /\ load'.how = "cache" =>
             \E i \in DOMAIN conversationCache :
                 /\ conversationCache[i].sessionId = load'.sessionId
                 /\ load'.filePath = SomePath(conversationCache[i].filePath)
       /\ load' # load /\ load'.pc = "refresh" =>
             \A i \in DOMAIN conversationCache :
                 conversationCache[i].sessionId # load'.sessionId]_vars

\* a call has resolved its session from the cache while a second scan is in
\* progress that has set entries of its own but has not come to that session
C27_Witness ==
    /\ load.pc = "read" /\ load.how = "cache"
    /\ scan.pc \notin { "idle", "list" }
    /\ scanStarts = 2
    /\ ~MapHas(scan.nextCache, load.sessionId)
    /\ scan.nextCache # << >>
    /\ conversationCache # scan.nextCache


\* C28: a watcher callback starts no scan: it leaves the cache, the last
\* fingerprint, the refresh promise, the scan, the watchers and the listeners
\* as they are, and with watching enabled it arms the timer, or replaces the
\* pending one; a directory walk starts only in a step in which the timer
\* fires, a listener subscribes or a list request arrives.
C28_EventOnlyArmsTimer ==
    [][/\ events' # events =>
             /\ UNCHANGED << conversationCache, lastSnapshotKey, refreshPromise, scan,
                             scanStarts, running, waiters, projectsWatcher, projectWatchers,
                             conversationListeners, watchersEnabled >>
             /\ IF watchersEnabled
                THEN /\ refreshTimer'
                     /\ pendingTimers' = IF refreshTimer THEN pendingTimers
                                         ELSE pendingTimers + 1
                ELSE UNCHANGED << refreshTimer, pendingTimers >>
       /\ scanStarts' # scanStarts =>
             /\ events' = events
             /\ \/ pendingTimers' = pendingTimers - 1 /\ ~refreshTimer'
                \/ subscribeCalls' = subscribeCalls + 1
                \/ requests' = requests + 1]_vars

\* a watcher has reported a change of the disk that the cache does not have
\* yet, the timer is pending and no scan is in flight
C28_Witness ==
    /\ events > 0
    /\ refreshTimer /\ pendingTimers = 1
    /\ ~refreshPromise /\ scan.pc = "idle"
    /\ fsVer > 0
    /\ conversationCache # << >>
    /\ MapKeys(conversationCache) # SessionsOnDisk(fs)


\* C29: never more than one debounce timer is pending, and refreshTimer holds
\* a timer exactly when one is; in the step in which the timer fires the
\* handle is cleared, so that the refresh this step calls, and the scan it
\* starts or joins, run with refreshTimer empty and no timer left.
C29_OneTimerPending ==
    /\ [](pendingTimers <= 1 /\ (refreshTimer <=> pendingTimers = 1))
    /\ [][pendingTimers' < pendingTimers =>
             /\ ~refreshTimer' /\ pendingTimers' = 0
             /\ refreshPromise'
             /\ Len(waiters') = Len(waiters) + 1
             /\ waiters'[Len(waiters')].kind = "emit"]_vars

\* one timer is pending for two watcher callbacks, after the last listener
\* has gone
C29_Witness ==
    /\ burst = 2
    /\ pendingTimers = 1
    /\ refreshTimer
    /\ conversationListeners = << >>
    /\ subscribeCalls = 2


\* C30: a watcher callback that runs while the timer is pending leaves the
\* timer's deadline where it was, and the timer's callback runs DEBOUNCE_MS
\* after the first callback of the burst.
C30_DeadlineSetByFirstEvent ==
    /\ [][events' # events /\ refreshTimer => clock'.deadline = clock.deadline]_vars
    /\ [][pendingTimers' < pendingTimers => clock.now = clock.first + DEBOUNCE_MS]_vars


\* C31: every callback a step invokes belongs to a listener that still has a
\* subscription whose unsubscribe function has not been called.
C31_NoCallbackAfterUnsubscribe ==
    \A i \in DOMAIN notified : subscriptions[notified[i].to] > 0


\* every subscribe call so far was made by another listener, and none of
\* them has unsubscribed
SubscribedOnce ==
    subscribeCalls = Cardinality({ l \in Listeners : subscriptions[l] > 0 })

\* C33: while each listener has subscribed once, no step hands a listener
\* the snapshot of the scan whose snapshot it was last handed already.
C33_SnapshotDeliveredOnce ==
    [][SubscribedOnce' =>
          \A i \in DOMAIN notified' : got[notified'[i].to] # notified'[i].scan]_vars


\* the transcripts on the disk, by session id, with the path, mtime and size
\* a scan of the disk as it is now would record
TranscriptsOnDisk ==
    { [sessionId |-> SessionIdOf(f), filePath |-> PROJECTS_DIR \o << d, f >>,
       mtimeMs |-> fs.files[<< d, f >>].mtimeMs, size |-> fs.files[<< d, f >>].size] :
         << d, f >> \in { k \in fs.dirs \X FileNames :
                            EndsWith(k[2], JsonlSuffix) /\ fs.files[k].exists } }

TranscriptsCached ==
    { [sessionId |-> conversationCache[i].sessionId,
       filePath |-> conversationCache[i].filePath,
       mtimeMs |-> conversationCache[i].mtimeMs,
       size |-> conversationCache[i].size] : i \in DOMAIN conversationCache }

\* C32: once a watch event has arrived after the last change of the disk, with
\* a subscriber registered, and nothing is running, queued or scheduled any
\* more, the committed cache has the transcripts the disk has.
C32_CommittedMatchesDiskAtRest ==
    Quiescent /\ events >= 1 /\ conversationListeners # << >>
        => TranscriptsCached = TranscriptsOnDisk


\* the scan body ends in this step
Commits == result = NoResult /\ result' # NoResult

\* C34 as stated: a scan ends with changed = FALSE only if its snapshot is the
\* snapshot committed before it.
C34_UnchangedOnlyIfIdentical ==
    [][Commits /\ ~result'.changed =>
          result'.conversations = SnapshotOf(conversationCache)]_vars

HasChar(str, ch) == \E i \in DOMAIN str : str[i] = ch

\* the fingerprint of the snapshot can be split again into its fields: no
\* session id or project holds a separator
Splits(conversations) ==
    \A i \in DOMAIN conversations :
        /\ ~HasChar(conversations[i].sessionId, ":")
        /\ ~HasChar(conversations[i].sessionId, "|")
        /\ ~HasChar(conversations[i].project, ":")
        /\ ~HasChar(conversations[i].project, "|")
        /\ ~HasChar(Slice0(conversations[i].firstPrompt, SNAPSHOT_PROMPT_LIMIT), "|")

\* the same sessions in the same order, each with the same updatedAt and
\* project and the same first SNAPSHOT_PROMPT_LIMIT characters of firstPrompt
SameUpToSnippet(a, b) ==
    /\ Len(a) = Len(b)
    /\ \A i \in DOMAIN a :
          /\ a[i].sessionId = b[i].sessionId
          /\ a[i].updatedAt = b[i].updatedAt
          /\ a[i].project = b[i].project
          /\ Slice0(a[i].firstPrompt, SNAPSHOT_PROMPT_LIMIT)
                = Slice0(b[i].firstPrompt, SNAPSHOT_PROMPT_LIMIT)

\* C34: a scan ends with changed = FALSE exactly when the fingerprint of its
\* snapshot is the one committed last; when no session id or project of the
\* two snapshots holds ':' or '|' (and no prompt prefix '|'), the snapshots
\* then have the same sessions in the same order with the same updatedAt,
\* project and first 120 characters of firstPrompt, and only then.
C34_UnchangedIffSameUpToSnippet ==
    [][Commits =>
          LET new == result'.conversations
              old == SnapshotOf(conversationCache)
          IN /\ result'.changed <=> buildSnapshotKey(new) # lastSnapshotKey
             /\ lastSnapshotKey = buildSnapshotKey(old)
             /\ Splits(new) /\ Splits(old)
                   => (result'.changed <=> ~SameUpToSnippet(new, old))]_vars

\* a listConversations call has returned changed = FALSE for a snapshot whose
\* firstPrompt differs from the one committed before it beyond the prefix
C34_Witness ==
    /\ lastRun # NoRun /\ prevRun # NoRun
    /\ ~lastRun.changed
    /\ lastRun.conversations # prevRun.conversations
    /\ SameUpToSnippet(lastRun.conversations, prevRun.conversations)


\* C35: in every state the fingerprint committed last is the fingerprint of
\* the cache's entries sorted by updatedAt, latest first, whichever caller
\* (timer, subscribe, list) the scans run for.
C35_FingerprintIsOfCache ==
    lastSnapshotKey = buildSnapshotKey(SnapshotOf(conversationCache))

\* the second scan has just committed another snapshot than the first, and
\* the cache is not empty
C35_Witness ==
    /\ result # NoResult
    /\ result.scan = 2
    /\ result.changed
    /\ conversationCache # << >>
    /\ lastSnapshotKey # << >>


\* C37: a listener with a subscription that has not been cancelled is in the
\* set the fan-out goes through, and the watchers' callbacks still arm the
\* timer.
C37_OpenSubscriptionStaysServed ==
    \A l \in Listeners :
        subscriptions[l] > 0 => l \in SeqToSet(conversationListeners) /\ watchersEnabled


\* C36: a scan that has ended, with or without failed I/O calls, leaves no
\* handle behind once its callers have resumed; a call of
\* refreshConversationCache made with no scan running starts a walk of its own,
\* whose result it waits for; and a handle that is set is cleared in the end.
C36_HandleClearedWhenSettled ==
    /\ [](Quiet /\ scan.pc = "idle" => ~refreshPromise /\ waiters = << >>)
    /\ [][scan.pc = "idle" /\ Len(waiters') > Len(waiters) =>
             /\ scanStarts' = scanStarts + 1
             /\ scan'.pc = "list"
             /\ refreshPromise'
             /\ waiters'[Len(waiters')].scan = scanStarts']_vars
    /\ (refreshPromise ~> ~refreshPromise)
    /\ (waiters # << >> ~> waiters = << >>)

\* after a scan with a failed I/O call has settled, a second call is waiting
\* for a scan of its own
C36_Witness ==
    /\ faults # { }
    /\ scanStarts = 2
    /\ refreshPromise
    /\ waiters # << >>
    /\ waiters[1].scan = 2

\* the calls of watchConversations still waiting for their refresh
WaitingIn(queue, l, n) ==
    \E i \in DOMAIN queue : queue[i] = [kind |-> "watch", listener |-> l, scan |-> n]
Waiting(l, n) == WaitingIn(waiters, l, n)

HandedInitial(l, n) ==
    \E i \in DOMAIN notified :
        /\ notified[i] = [to |-> l, via |-> "watch",
                          conversations |-> SnapshotOf(conversationCache),
                          changed |-> notified[i].changed, scan |-> n]

\* C38: every watchConversations call waits for the scan in flight when it was
\* made, or for the scan it starts, and in the end its listener is called, once
\* for the call, with the snapshot that scan committed, whatever the scan's
\* changed flag is.
C38_InitialSnapshotDelivered ==
    /\ [][\A l \in Listeners :
             subscriptions'[l] > subscriptions[l] =>
                 /\ WaitingIn(waiters', l, scanStarts')
                 /\ scanStarts' = IF refreshPromise THEN scanStarts ELSE scanStarts + 1]_vars
    /\ \A l \in Listeners, n \in 1 .. MaxScans : Waiting(l, n) ~> HandedInitial(l, n)
    /\ [][\A i \in DOMAIN notified' :
             notified'[i].via = "watch" =>
                 /\ Len(notified') = 1
                 /\ Waiting(notified'[i].to, notified'[i].scan)
                 /\ Len(waiters') = Len(waiters) - 1]_vars

\* a listener has been handed the snapshot of a scan that found nothing changed
C38_Witness ==
    \E i \in DOMAIN notified :
        /\ notified[i].via = "watch"
        /\ ~notified[i].changed
        /\ notified[i].scan = 2
        /\ subscriptions[notified[i].to] > 0

====
